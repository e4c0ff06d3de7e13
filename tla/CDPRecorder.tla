----------------------------- MODULE CDPRecorder -----------------------------
(***************************************************************************)
(* Recording a browser's traffic over the Chrome DevTools Protocol         *)
(* (internal/cdphar): the recorder turns network events into the entries   *)
(* of a HAR, from which a session's sequence state is then derived.        *)
(*                                                                         *)
(* The redirects of a request share its identifier: a request is a series  *)
(* of hops, each of which becomes an entry.  Base events (request,         *)
(* response, end, cache hit) of a request arrive in order; supplemental    *)
(* events, with the headers really sent and received, arrive in order too, *)
(* but at any time relative to the base events, and carry nothing that     *)
(* says which hop they belong to.  Base events tell, later, whether a hop  *)
(* has supplemental events at all.                                         *)
(*                                                                         *)
(* The recording ends at a cutoff read from the browser's clock.  Events   *)
(* are buffered while it is read and then replayed; those that promised    *)
(* more are drained for a while; bodies are fetched by workers.  The limits *)
(* on size and number of entries, like every other error, fail the capture *)
(* as a whole.                                                             *)
(***************************************************************************)
EXTENDS Naturals, Sequences, FiniteSets

CONSTANTS
  Requests,    \* network request identifiers
  MaxHops,     \* bound on the hops of a request
  MaxWire,     \* bound on base events of a request under way
  MaxOrphans,  \* maxFrozenOrphanExtras
  MaxPending   \* maxPendingFetches

ASSUME ConstantsAssumption ==
  /\ MaxHops \in Nat \ {0} /\ MaxWire \in Nat
  /\ MaxOrphans \in Nat /\ MaxPending \in Nat

VARIABLES
  phase,    \* of the capture
  hops,     \* browser: the hops of each request, as they happened
  stage,    \* browser: of the last hop of each request
  wire,     \* base events under way, per request
  arrived,  \* hop of the last supplemental event of each kind, per request
  buffer,   \* events buffered at the cutoff
  chain,    \* what the recorder knows of each request
  tasks,    \* fetch tasks queued: request and position of the entry
  dropped   \* history: requests an orphan of which was not kept

browser == <<hops, stage, wire, arrived>>
vars == <<phase, hops, stage, wire, arrived, buffer, chain, tasks, dropped>>

Phases == {"capturing", "freezing", "cut", "replaying", "draining", "stopped",
           "done", "failed"}
Hop == [extra: BOOLEAN, cached: BOOLEAN, repeated: BOOLEAN, late: BOOLEAN]
\* Supplemental events.
Extras == {"requestExtra", "responseExtra"}
Starts == {"request", "duplicate"}
Types == Starts \cup Extras \cup {"cache", "response", "finished", "failed"}
Event == [type: Types, hop: 1 .. MaxHops, extra: BOOLEAN, late: BOOLEAN]
Entry == [hop: 1 .. MaxHops, known: BOOLEAN, expected: BOOLEAN,
          extra: [Extras -> 0 .. MaxHops], response: 0 .. MaxHops,
          end: {"none", "finished", "failed"}, cached: BOOLEAN,
          scheduled: BOOLEAN, body: 0 .. MaxHops]
Chain == [entries: Seq(Entry), pending: [Extras -> Seq(1 .. MaxHops)],
          orphans: [Extras -> Seq(1 .. MaxHops)], afterCutoff: BOOLEAN]

None == [x \in Extras |-> <<>>]
NewEntry(n) == [hop |-> n, known |-> FALSE, expected |-> FALSE,
                extra |-> [x \in Extras |-> 0], response |-> 0, end |-> "none",
                cached |-> FALSE, scheduled |-> FALSE, body |-> 0]

Orphans == UNION {{<<r, x, i>> : i \in DOMAIN chain[r].orphans[x]} :
                    r \in Requests, x \in Extras}

TypeOK ==
  /\ phase \in Phases
  /\ hops \in [Requests -> Seq(Hop)]
  /\ stage \in [Requests -> {"none", "sent", "responded", "over"}]
  /\ wire \in [Requests -> Seq(Event)]
  /\ arrived \in [Requests -> [Extras -> 0 .. MaxHops]]
  /\ buffer \in Seq(Requests \X Event)
  /\ chain \in [Requests -> Chain]
  /\ tasks \subseteq Requests \X (1 .. MaxHops)
  /\ dropped \subseteq Requests
  /\ Cardinality(Orphans) <= MaxOrphans

Init ==
  /\ phase = "capturing"
  /\ hops = [r \in Requests |-> <<>>]
  /\ stage = [r \in Requests |-> "none"]
  /\ wire = [r \in Requests |-> <<>>]
  /\ arrived = [r \in Requests |-> [x \in Extras |-> 0]]
  /\ buffer = <<>>
  /\ chain = [r \in Requests |-> [entries |-> <<>>, pending |-> None,
                                  orphans |-> None, afterCutoff |-> FALSE]]
  /\ tasks = {} /\ dropped = {}

-----------------------------------------------------------------------------
(* The browser.                                                            *)

Recording == phase \notin {"stopped", "done", "failed"}
\* Events the browser emits from now on are later than the cutoff.
Late == phase \notin {"capturing", "freezing"}

Emit(r, type, extra) ==
  /\ Recording /\ Len(wire[r]) < MaxWire
  /\ wire' = [wire EXCEPT ![r] =
       Append(@, [type |-> type, hop |-> Len(hops'[r]), extra |-> extra,
                  late |-> Late])]
  /\ UNCHANGED <<phase, arrived, buffer, chain, tasks, dropped>>

LastHop(r) == hops[r][Len(hops[r])]

(* A request is sent, or redirected: requestWillBeSent then says whether   *)
(* the hop before has supplemental events (RedirectHasExtraInfo).          *)
SendRequest(r) ==
  /\ stage[r] = "none" \/ (stage[r] = "sent" /\ Len(hops[r]) < MaxHops)
  /\ \E x \in BOOLEAN :
       hops' = [hops EXCEPT ![r] =
                 Append(@, [extra |-> x, cached |-> FALSE, repeated |-> FALSE,
                            late |-> Late])]
  /\ stage' = [stage EXCEPT ![r] = "sent"]
  /\ Emit(r, "request", stage[r] = "sent" /\ LastHop(r).extra)

(* The same requestWillBeSent again, before any redirect and at most once  *)
(* per request.  The recorder tells a duplicate by its having no redirect  *)
(* response: a redirected hop repeated would make another entry, and is    *)
(* assumed not to be.                                                      *)
RepeatRequest(r) ==
  /\ stage[r] = "sent" /\ Len(hops[r]) = 1 /\ ~LastHop(r).repeated
  /\ hops' = [hops EXCEPT ![r][1].repeated = TRUE]
  /\ UNCHANGED stage
  /\ Emit(r, "duplicate", FALSE)

HitCache(r) ==
  /\ stage[r] = "sent" /\ ~LastHop(r).cached
  /\ hops' = [hops EXCEPT ![r][Len(hops[r])].cached = TRUE]
  /\ UNCHANGED stage
  /\ Emit(r, "cache", FALSE)

Respond(r) ==
  /\ stage[r] = "sent"
  /\ stage' = [stage EXCEPT ![r] = "responded"]
  /\ UNCHANGED hops
  /\ Emit(r, "response", LastHop(r).extra)

(* The body is complete, or the request fails, before or after a response. *)
EndRequest(r) ==
  /\ stage' = [stage EXCEPT ![r] = "over"]
  /\ UNCHANGED hops
  /\ \/ stage[r] = "responded" /\ Emit(r, "finished", FALSE)
     \/ stage[r] \in {"sent", "responded"} /\ Emit(r, "failed", FALSE)

-----------------------------------------------------------------------------
(* The recorder: what an event makes of the chain c of its request.        *)

Last(c) == Len(c.entries)

\* reconcileExtraInfo: the oldest entries known to have supplemental events
\* get the oldest ones, up to the first entry of which that is not known.
MutAwaiting(c, x) ==
  {i \in DOMAIN c.entries : /\ \A j \in 1 .. i : c.entries[j].known
                            /\ c.entries[i].extra[x] = 0}
Awaiting(c, x) ==
  {i \in DOMAIN c.entries : /\ \A j \in 1 .. i : c.entries[j].known
                            /\ c.entries[i].expected
                            /\ c.entries[i].extra[x] = 0}
Rank(i, S) == Cardinality({j \in S : j <= i})
Assigned(c, x, i) ==
  LET k == Rank(i, Awaiting(c, x)) IN
  IF i \in Awaiting(c, x) /\ k <= Len(c.pending[x])
  THEN c.pending[x][k] ELSE c.entries[i].extra[x]
Reconciled(c) ==
  [c EXCEPT
    !.entries = [i \in DOMAIN c.entries |->
      [c.entries[i] EXCEPT !.extra = [x \in Extras |-> Assigned(c, x, i)]]],
    !.pending = [x \in Extras |->
      SubSeq(c.pending[x], Cardinality(Awaiting(c, x)) + 1, Len(c.pending[x]))]]

\* setExtraInfoExpectation, of the current entry.
Expect(c, expected) ==
  Reconciled([c EXCEPT !.entries[Last(c)].known = TRUE,
                       !.entries[Last(c)].expected = expected])

\* A redirect completes the entry before it.  Its body can no longer be
\* fetched: it counts as scheduled.
MutRedirected(c, e) ==
  Expect([c EXCEPT !.entries[Last(c)].response = e.hop - 1,
                   !.entries[Last(c)].end = "finished"], e.extra)
Redirected(c, e) ==
  Expect([c EXCEPT !.entries[Last(c)].response = e.hop - 1,
                   !.entries[Last(c)].end = "finished",
                   !.entries[Last(c)].scheduled = TRUE], e.extra)

\* Supplemental events kept for a request that was not known yet.
Adopted(c) ==
  [c EXCEPT !.pending = [x \in Extras |-> c.pending[x] \o c.orphans[x]],
            !.orphans = None]

NewHop(c, e) ==
  [c EXCEPT !.entries = Append(@, NewEntry(e.hop)), !.afterCutoff = FALSE]
MutRequestWillBeSent(c, e) ==
  IF c.entries = <<>> THEN NewHop(Adopted(c), e)
  ELSE NewHop(Redirected(c, e), e)
RequestWillBeSent(c, e) ==
  IF c.entries = <<>> THEN NewHop(Adopted(c), e)
  ELSE IF e.type = "duplicate" THEN [c EXCEPT !.afterCutoff = FALSE]
  ELSE NewHop(Redirected(c, e), e)

\* A failed request will not say whether it had supplemental events: that
\* there are some must do.
FailedUnknown(c) ==
  /\ c.entries # <<>>
  /\ c.entries[Last(c)].end = "failed" /\ ~c.entries[Last(c)].known
LoadingFailed(c) ==
  LET d == [c EXCEPT !.entries[Last(c)].end = "failed"] IN
  IF FailedUnknown(d) /\ d.pending # None THEN Expect(d, TRUE) ELSE d

ExtraInfo(c, e) ==
  LET d == [c EXCEPT !.pending[e.type] = Append(@, e.hop)] IN
  IF FailedUnknown(d) THEN Expect(d, TRUE) ELSE Reconciled(d)

Recorded(c, e) ==
  CASE e.type \in Starts -> RequestWillBeSent(c, e)
    [] e.type \in Extras -> ExtraInfo(c, e)
    [] e.type \notin Starts \cup Extras /\ c.entries = <<>> -> c
    [] e.type = "cache" /\ c.entries # <<>> ->
         [c EXCEPT !.entries[Last(c)].cached = TRUE]
    [] e.type = "response" /\ c.entries # <<>> ->
         Expect([c EXCEPT !.entries[Last(c)].response = e.hop], e.extra)
    [] e.type = "finished" /\ c.entries # <<>> ->
         [c EXCEPT !.entries[Last(c)].end = "finished"]
    [] e.type = "failed" /\ c.entries # <<>> -> LoadingFailed(c)

\* readyBodyFetchTasks: entries whose body can be fetched, the status of
\* the response being settled.
Ready(c) ==
  {i \in DOMAIN c.entries :
     LET entry == c.entries[i] IN
     /\ entry.end = "finished" /\ entry.response # 0 /\ ~entry.scheduled
     /\ entry.expected => entry.extra["responseExtra"] # 0}

\* Events after which readyBodyFetchTasks is called.
MutCompleting == {"response", "finished"}
Completing == {"response", "finished", "responseExtra"}

\* The queue of tasks is bounded; an entry it has no room for goes without
\* a body.
Schedule(r, c) ==
  /\ chain' = [chain EXCEPT ![r] =
       [c EXCEPT !.entries = [i \in DOMAIN c.entries |->
          [c.entries[i] EXCEPT !.scheduled = @ \/ i \in Ready(c)]]]]
  /\ tasks' = IF Cardinality(tasks) < MaxPending
              THEN tasks \cup {<<r, i>> : i \in Ready(c)} ELSE tasks

-----------------------------------------------------------------------------
(* Handling an event: handleEvent, and handleBufferedEvent for those that  *)
(* were buffered at the cutoff.                                            *)

Frozen == phase \in {"replaying", "draining"}

\* After the cutoff: base events later than it, and cache hits, which have
\* no time, unless buffered and not preceded by a later request.
MutIgnored(c, e, buffered) ==
  /\ Frozen /\ e.type \notin Extras
  /\ IF e.type = "cache" THEN ~buffered ELSE e.late
Ignored(c, e, buffered) ==
  /\ Frozen /\ e.type \notin Extras
  /\ IF e.type = "cache" THEN ~buffered \/ c.afterCutoff ELSE e.late

\* Supplemental events after the cutoff without a request: it may follow.
Orphan(c, e) == Frozen /\ e.type \in Extras /\ c.entries = <<>>

MutOrphansFit == Cardinality(Orphans) <= MaxOrphans
OrphansFit == Cardinality(Orphans) < MaxOrphans

Ignore(r, e) ==
  /\ chain' = [chain EXCEPT ![r].afterCutoff = @ \/ e.type \in Starts]
  /\ UNCHANGED <<tasks, dropped>>
KeepOrphan(r, e) ==
  /\ IF OrphansFit
     THEN /\ chain' = [chain EXCEPT ![r].orphans[e.type] = Append(@, e.hop)]
          /\ UNCHANGED dropped
     ELSE dropped' = dropped \cup {r} /\ UNCHANGED chain
  /\ UNCHANGED tasks
Record(r, e) ==
  /\ IF e.type \in Completing
     THEN Schedule(r, Recorded(chain[r], e))
     ELSE chain' = [chain EXCEPT ![r] = Recorded(@, e)] /\ UNCHANGED tasks
  /\ UNCHANGED dropped

Handle(r, e, buffered) ==
  \/ Ignored(chain[r], e, buffered) /\ Ignore(r, e)
  \/ Orphan(chain[r], e) /\ KeepOrphan(r, e)
  \/ ~Ignored(chain[r], e, buffered) /\ ~Orphan(chain[r], e) /\ Record(r, e)

-----------------------------------------------------------------------------
(* The capture.                                                            *)

\* The listener buffers what arrives while the cutoff is established.
Buffering == phase \in {"freezing", "cut"}
Listen(r, e) ==
  /\ phase \in {"capturing", "freezing", "cut", "draining"}
  /\ IF Buffering
     THEN buffer' = Append(buffer, <<r, e>>) /\ UNCHANGED <<chain, tasks, dropped>>
     ELSE Handle(r, e, FALSE) /\ UNCHANGED buffer

Deliver(r) ==
  /\ wire[r] # <<>>
  /\ Listen(r, Head(wire[r]))
  /\ wire' = [wire EXCEPT ![r] = Tail(@)]
  /\ UNCHANGED <<phase, hops, stage, arrived>>

\* The next supplemental event of a hop that has one, once it has begun.
DeliverExtra(r, x) ==
  \E n \in DOMAIN hops[r] :
    /\ n > arrived[r][x] /\ hops[r][n].extra
    /\ \A m \in (arrived[r][x] + 1) .. (n - 1) : ~hops[r][m].extra
    /\ Listen(r, [type |-> x, hop |-> n, extra |-> FALSE, late |-> FALSE])
    /\ arrived' = [arrived EXCEPT ![r][x] = n]
    /\ UNCHANGED <<phase, hops, stage, wire>>

(* The page has loaded and the wait is over: buffering begins, ...         *)
BeginFreeze ==
  /\ phase = "capturing" /\ phase' = "freezing"
  /\ UNCHANGED <<browser, buffer, chain, tasks, dropped>>
(* ... the browser answers with the time of its clock, ...                 *)
ReadClock ==
  /\ phase = "freezing" /\ phase' = "cut"
  /\ UNCHANGED <<browser, buffer, chain, tasks, dropped>>
(* ... the recorder is frozen at that time, ...                            *)
Freeze ==
  /\ phase = "cut" /\ phase' = "replaying"
  /\ chain' = [r \in Requests |-> Reconciled(chain[r])]
  /\ UNCHANGED <<browser, buffer, tasks, dropped>>
(* ... and handles what was buffered, before anything that comes later.    *)
Replay ==
  /\ phase = "replaying" /\ buffer # <<>>
  /\ Handle(Head(buffer)[1], Head(buffer)[2], TRUE)
  /\ buffer' = Tail(buffer)
  /\ UNCHANGED <<phase, browser>>
Drain ==
  /\ phase = "replaying" /\ buffer = <<>> /\ phase' = "draining"
  /\ UNCHANGED <<browser, buffer, chain, tasks, dropped>>
(* Nothing promised is missing, or 250 ms have passed.                     *)
StopListening ==
  /\ phase = "draining" /\ phase' = "stopped"
  /\ UNCHANGED <<browser, buffer, chain, tasks, dropped>>

(* A worker fetches the body of a request, by its identifier.              *)
Fetch(r, i) ==
  /\ phase \notin {"done", "failed"} /\ <<r, i>> \in tasks
  /\ tasks' = tasks \ {<<r, i>>}
  /\ \E body \in {0, Len(hops[r])} :
       chain' = [chain EXCEPT ![r].entries[i].body = body]
  /\ UNCHANGED <<phase, browser, buffer, dropped>>

(* Once the workers are through the archive is written.                    *)
Archive ==
  /\ phase = "stopped" /\ tasks = {} /\ phase' = "done"
  /\ UNCHANGED <<browser, buffer, chain, tasks, dropped>>

(* A limit is exceeded, the clock cannot be read, the deadline passes.     *)
Fail ==
  /\ phase \notin {"done", "failed"} /\ phase' = "failed"
  /\ UNCHANGED <<browser, buffer, chain, tasks, dropped>>

Stop == phase \in {"done", "failed"} /\ UNCHANGED vars

Next ==
  \/ \E r \in Requests :
       \/ SendRequest(r) \/ RepeatRequest(r) \/ HitCache(r) \/ Respond(r)
       \/ EndRequest(r) \/ Deliver(r)
       \/ \E x \in Extras : DeliverExtra(r, x)
       \/ \E i \in 1 .. MaxHops : Fetch(r, i)
  \/ BeginFreeze \/ ReadClock \/ Freeze \/ Replay \/ Drain \/ StopListening
  \/ Archive \/ Fail \/ Stop

Spec == Init /\ [][Next]_vars

-----------------------------------------------------------------------------
(* Properties.                                                             *)

(* Every hop up to the cutoff has one entry, in order, with its own        *)
(* response, and later hops have none: requests sent again make no entry   *)
(* that would take the response of another, nor does what is delivered     *)
(* while the cutoff is read.                                               *)
OneEntryPerHop ==
  \A r \in Requests : \A i \in DOMAIN chain[r].entries :
    /\ chain[r].entries[i].hop = i /\ ~hops[r][i].late
    /\ chain[r].entries[i].response \in {0, i}

(* Headers and cookies of one hop never appear in the entry of another,    *)
(* however supplemental and base events interleave, except in requests of  *)
(* which orphans were discarded: those kept after one are then shifted.    *)
ExtrasNotShiftedUnlessDropped ==
  \A r \in Requests \ dropped : \A i \in DOMAIN chain[r].entries, x \in Extras :
    chain[r].entries[i].extra[x] \in {0, i}

(* No entry says it came from the cache when its hop did not: a cache hit  *)
(* after the cutoff is not taken for one of the last hop recorded.         *)
CacheHitsAreTrue ==
  \A r \in Requests : \A i \in DOMAIN chain[r].entries :
    chain[r].entries[i].cached => hops[r][i].cached

(* A body fetched later, by an identifier that redirects share, is the     *)
(* body of the entry's own hop.                                            *)
BodiesAreTheirOwn ==
  \A r \in Requests : \A i \in DOMAIN chain[r].entries :
    chain[r].entries[i].body \in {0, i}

(* No body is forgotten: whichever event was the last one missing, the     *)
(* fetch of a complete entry has been scheduled.                           *)
NoBodyForgotten == \A r \in Requests : Ready(chain[r]) = {}
=============================================================================
