----------------------------- MODULE HARImport -----------------------------
(* What the imports of internal/capture read out of a HAR file: the numbers *)
(* a session continues from (har.go), the Expense workspace it is bound to, *)
(* a recorded draft flow, and a recorded receipt flow (receipt.go).         *)
(*                                                                          *)
(* A HAR file is a sequence of entries.  An exchange with ProcessMessages   *)
(* says where it went (origin, endpoint, company and channel as one value), *)
(* in which language (NoLanguage before the page has one), with which       *)
(* credentials, which server message it acknowledges, which message it      *)
(* sends (0 for none) and the command in it; whether the answer is 2xx, has *)
(* a body that can be parsed, which client message it acknowledges and the  *)
(* messages it brings: the forms they create (with their title), show again *)
(* and delete, the receipt counts and statuses (Draft or not) they show on  *)
(* a form, and the reports they list in the grid.                           *)
(* An upload says whether it succeeded and which file it made.  Two forms   *)
(* never have the same identifier; a control is known by the form it is on. *)
EXTENDS Integers, Sequences, SequencesExt, FiniteSetsExt

CONSTANT NoLanguage  \* the language of a page's first request

None == [kind |-> "none"]

\* The elements of a sequence at some places, in their order.
Those(seq, places) ==
  LET upTo[n \in 0 .. Len(seq)] ==
        IF n = 0 THEN <<>>
        ELSE IF n \in places THEN Append(upTo[n - 1], seq[n]) ELSE upTo[n - 1]
  IN  upTo[Len(seq)]

\* collectExchanges: uploads are no exchanges, but keep their place.
IsExchange(e) == e.type = "exchange"
Exchanges(har) == Those(har, {i \in DOMAIN har : IsExchange(har[i])})

Parsed(ex) == ex.ok /\ ex.body
Unparsed(ex) == ex.ok /\ ~ex.body

\* exchangeSucceeded: acknowledged as a whole.
Succeeded(ex) == Parsed(ex) /\ ex.acked >= ex.sent

-----------------------------------------------------------------------------
(* Which exchanges belong together.                                         *)

Key(ex) == <<ex.where, ex.language>>
\* The bootstrap imports leave the fingerprint of the credentials out.
MutKey(ex) == <<ex.where>>
BootstrapKey(ex) == Key(ex)
FlowKey(ex) == <<Key(ex), ex.auth>>

\* selectExchangeGroup: the whole file is one session.
OneSession(exs) == \A i \in DOMAIN exs : FlowKey(exs[i]) = FlowKey(exs[1])

\* selectLatestBootstrapGroup: the longest tail of one key.
LatestGroup(exs) ==
  LET tails == {i \in DOMAIN exs :
                  \A j \in i .. Len(exs) : BootstrapKey(exs[j]) = BootstrapKey(Last(exs))}
  IN  SubSeq(exs, Min(tails), Len(exs))

ServerNumbers(ex) == {ex.messages[i].n : i \in DOMAIN ex.messages}

\* withFormLoad: the request before the group is the page's form load when it
\* precedes it without a gap on either side.
WithFormLoad(exs, group) ==
  LET first == Len(exs) - Len(group)
      previous == exs[first]
      next == group[1]
  IN  IF /\ first > 0
         /\ Succeeded(previous) /\ previous.language = NoLanguage
         /\ previous.where = next.where
         /\ next.ack = Max({0} \cup ServerNumbers(previous))
         /\ next.sent = previous.sent + 1
      THEN <<previous>> \o group ELSE group

-----------------------------------------------------------------------------
(* extractSessionProfile: where a session continues.                        *)

Answered(exs) == {i \in DOMAIN exs : exs[i].ok}

\* The highest number sent or acknowledged, over the 2xx answers.
ClientNumbers(exs) ==
  {exs[i].sent : i \in Answered(exs)}
  \cup {exs[i].acked : i \in {j \in Answered(exs) : Parsed(exs[j])}}

ServerSeen(exs) ==
  {exs[i].ack : i \in Answered(exs)}
  \cup UNION {ServerNumbers(exs[i]) : i \in {j \in Answered(exs) : Parsed(exs[j])}}

MutHasSession(exs) ==
  Answered(exs) # {} /\ \A i \in DOMAIN exs : ~Unparsed(exs[i])
HasSession(exs) ==
  /\ Answered(exs) # {}
  /\ \A i \in DOMAIN exs : ~Unparsed(exs[i])
  /\ exs[Max(Answered(exs))].language # NoLanguage

SessionOf(exs) ==
  [where |-> exs[Max(Answered(exs))].where,
   language |-> exs[Max(Answered(exs))].language,
   next |-> Max(ClientNumbers(exs)) + 1,
   last |-> Max(ServerSeen(exs)),
   entries |-> {exs[i].entry : i \in DOMAIN exs}]

-----------------------------------------------------------------------------
(* Forms, from the messages of the answers in their order.                  *)

MessagesOf(exs) == FlattenSeq([i \in DOMAIN exs |-> exs[i].messages])
SucceededOf(exs) == Those(exs, {i \in DOMAIN exs : Succeeded(exs[i])})
ParsedOf(exs) == Those(exs, {i \in DOMAIN exs : Parsed(exs[i])})

Shown(m) == m.made \cup m.shown
KnownForms(exs) == UNION {Shown(m) : m \in ToSet(MessagesOf(exs))}

\* Shown by a message and deleted by no later one.
MutActive(ms, kind) ==
  {f \in UNION {Shown(m) : m \in ToSet(ms)} : f.kind = kind}
Active(ms, kind) ==
  {f \in UNION {Shown(m) : m \in ToSet(ms)} :
     /\ f.kind = kind
     /\ \E i \in DOMAIN ms :
          f \in Shown(ms[i]) /\ \A j \in (i + 1) .. Len(ms) : f \notin ms[j].deleted}

OnlyOne(S) == Cardinality(S) = 1
TheOne(S) == CHOOSE x \in S : TRUE

AnswerShows(ex, kind) ==
  OnlyOne({f \in UNION {Shown(m) : m \in ToSet(ex.messages)} : f.kind = kind})

\* The successful exchanges with a command on a form of a kind.
Commands(exs, name, kind) ==
  {i \in DOMAIN exs : /\ Succeeded(exs[i]) /\ exs[i].command.name = name
                      /\ exs[i].command.root.kind = kind}

-----------------------------------------------------------------------------
(* ParseBootstrap: the workspace of the latest session.                     *)

\* extractObservedWorkspaceOpen
ObservedOpens(exs) ==
  {i \in Commands(exs, "New", "workspace") : AnswerShows(exs[i], "new")}

\* extractWorkspaceNewReport
WorkspaceRoot(exs) ==
  LET roots == Active(MessagesOf(SucceededOf(exs)), "workspace")
      opens == ObservedOpens(exs)
  IN  IF OnlyOne(roots) THEN TheOne(roots)
      ELSE IF roots = {} /\ OnlyOne(opens) THEN exs[TheOne(opens)].command.root
      ELSE None

UsableGroup(exs) ==
  exs # <<>> /\ Succeeded(Last(exs)) /\ HasSession(LatestGroup(exs))

Bootstrap(har) ==
  LET exs == Exchanges(har)
      group == LatestGroup(exs)
      root == WorkspaceRoot(group)
  IN  IF ~UsableGroup(exs) THEN {}
      ELSE IF root = None THEN {}
      ELSE {[session |-> SessionOf(group), root |-> root,
             observed |-> Active(MessagesOf(SucceededOf(group)), "workspace") = {}]}

\* ParseBootstrapWithNewReport: the root comes from the page, the grid, link
\* and tabs of it (here: that they are known) from the answers, the form load
\* included.
BootstrapWith(har, root) ==
  LET exs == Exchanges(har)
      group == LatestGroup(exs)
      pageLoad == WithFormLoad(exs, group)
  IN  IF ~UsableGroup(exs) THEN {}
      ELSE {[session |-> [SessionOf(group) EXCEPT
                            !.entries = {pageLoad[i].entry : i \in DOMAIN pageLoad}],
             root |-> root,
             targets |-> root \in KnownForms(SucceededOf(pageLoad))]}

-----------------------------------------------------------------------------
(* Parse: the one New, Create, Save flow of the file, in this order.        *)

DraftFlows(exs) ==
  LET known == KnownForms(ParsedOf(exs))
      Seen(name, kind) ==
        {i \in Commands(exs, name, kind) : exs[i].command.root \in known}
  IN  {t \in Seen("New", "workspace") \X Seen("Create", "new") \X Seen("Save", "details") :
         t[1] < t[2] /\ t[2] < t[3]}

DraftProfile(har) ==
  LET exs == Exchanges(har)
  IN  IF exs = <<>> THEN {}
      ELSE IF ~(OneSession(exs) /\ HasSession(exs) /\ OnlyOne(DraftFlows(exs))) THEN {}
      ELSE {[session |-> SessionOf(exs),
             root |-> exs[TheOne(DraftFlows(exs))[1]].command.root]}
=============================================================================
