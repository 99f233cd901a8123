----------------------------- MODULE AskWorker ------------------------------
(***************************************************************************)
(* Ask retrieval on a worker thread (apps/server/src/askWorker.ts, with    *)
(* the index cache of askRetrieval.ts).  The request thread admits         *)
(* tickets, queues their requests and mirrors what the worker tells it;    *)
(* the worker builds the indexes it was allowed to build, one request      *)
(* after the other, and posts a message before and after each build.  The  *)
(* two threads share nothing but the two message queues.                   *)
(***************************************************************************)
EXTENDS Naturals, FiniteSets, SequencesExt

CONSTANTS
  Tickets,        \* requests that ask for admission
  Keys,           \* snapshots that can be searched
  CandidateLists, \* sequences of keys that locate() may return
  NoKey,
  MaxPending,     \* ASK_WORKER_MAX_PENDING
  MaxColdBuilds,  \* ASK_WORKER_MAX_COLD_BUILDS
  MaxIndexes      \* ASK_WORKER_MAX_INDEXES

ASSUME AskAssumption ==
  /\ IsFiniteSet(Tickets)
  /\ NoKey \notin Keys
  /\ CandidateLists # {} /\ \A list \in CandidateLists : list \in Seq(Keys)
  /\ MaxPending \in Nat /\ MaxColdBuilds \in Nat \ {0} /\ MaxIndexes \in Nat \ {0}

VARIABLES
  ticket,    \* [Tickets -> Ticket]
  askJobs,      \* tickets whose requests wait on the worker, in order
  blamable,  \* key the head job is building as far as the messages tell, or NoKey
  warm,      \* mirror of the worker's cache
  failed,    \* negatively cached keys
  up,        \* a worker exists
  inbox,     \* tickets whose requests the worker has not taken yet
  outbox,    \* messages of the worker that are not delivered yet
  cache,     \* keys of the built indexes, least recently used first
  broken,    \* keys whose build failed in this worker
  at,        \* position in the candidates of the request in work, 0 when idle
  failures,  \* failedKeys of the request in work
  inBuild    \* key the worker is building, or NoKey

coordinator == <<ticket, askJobs, blamable, warm, failed>>
worker == <<cache, broken, at, failures, inBuild>>
askVars == <<coordinator, up, inbox, outbox, worker>>

NoTicket == [state |-> "none", keys |-> <<>>, cold |-> {}, joined |-> {}]

FreshWorker ==
  /\ inbox' = <<>> /\ outbox' = <<>> /\ cache' = <<>> /\ broken' = {}
  /\ at' = 0 /\ failures' = {} /\ inBuild' = NoKey

AskInit ==
  /\ ticket = [t \in Tickets |-> NoTicket]
  /\ askJobs = <<>> /\ blamable = NoKey /\ warm = {} /\ failed = {}
  /\ up = FALSE /\ inbox = <<>> /\ outbox = <<>>
  /\ cache = <<>> /\ broken = {} /\ at = 0 /\ failures = {} /\ inBuild = NoKey

TicketsIn(state) == {t \in Tickets : ticket[t].state = state}

\* The `building` map: keys that tickets which are not settled may build.
Building == UNION {ticket[t].cold \cup ticket[t].joined : t \in Tickets \ (TicketsIn("none") \cup TicketsIn("done"))}

Pending == Len(askJobs) + Cardinality(TicketsIn("admitted"))

MayAdmit(cold) ==
  /\ Pending < MaxPending
  /\ cold = {} \/ Cardinality(Building) < MaxColdBuilds

\* The candidates without those of failed keys: their places are left empty, and the
\* worker passes over them.
Filtered(list) == [n \in DOMAIN list |-> IF list[n] \in failed THEN NoKey ELSE list[n]]

\* admit: the keys that are neither warm nor being built are cold.
Admit(t, list) ==
  LET missing == ToSet(list) \ (failed \cup warm)
  IN /\ ticket[t].state = "none"
     /\ ToSet(list) \ failed # {}
     /\ MayAdmit(missing \ Building)
     /\ ticket' = [ticket EXCEPT ![t] = [state |-> "admitted", keys |-> Filtered(list),
                                         cold |-> missing \ Building,
                                         joined |-> missing \cap Building]]
     /\ UNCHANGED <<askJobs, blamable, warm, failed, up, inbox, outbox, worker>>

Into(t, state) == [ticket EXCEPT ![t].state = state]

\* run: the request goes to the worker, which is spawned if there is none.
RunTicket(t) ==
  /\ ticket[t].state = "admitted"
  /\ ticket' = Into(t, "running")
  /\ askJobs' = Append(askJobs, t)
  /\ up' = TRUE
  /\ inbox' = Append(inbox, t)
  /\ UNCHANGED <<blamable, warm, failed, outbox, worker>>

\* The ticket is released without running, or no worker can be spawned for it.
ReleaseTicket(t) ==
  /\ ticket[t].state = "admitted"
  /\ ticket' = Into(t, "done")
  /\ UNCHANGED <<askJobs, blamable, warm, failed, up, inbox, outbox, worker>>

\* The finally clause behind the answer of a job: its keys leave the map.
SettleTicket(t) ==
  /\ ticket[t].state = "answered"
  /\ ticket' = Into(t, "done")
  /\ UNCHANGED <<askJobs, blamable, warm, failed, up, inbox, outbox, worker>>

\* Mutant of Fail: only the head is rejected.
FailHead ==
  /\ ticket' = [t \in Tickets |-> IF askJobs # <<>> /\ t = askJobs[1]
                                  THEN [ticket[t] EXCEPT !.state = "answered"] ELSE ticket[t]]
  /\ failed' = failed \cup ({blamable} \ {NoKey})
  /\ askJobs' = <<>> /\ blamable' = NoKey /\ warm' = {}
  /\ up' = FALSE
  /\ FreshWorker

\* fail: the worker is terminated, the build that was announced and not reported is
\* blamed, and every job is rejected.  Messages of the old worker are ignored.
Fail ==
  /\ ticket' = [t \in Tickets |-> IF t \in ToSet(askJobs) THEN [ticket[t] EXCEPT !.state = "answered"]
                                  ELSE ticket[t]]
  /\ failed' = failed \cup ({blamable} \ {NoKey})
  /\ askJobs' = <<>> /\ blamable' = NoKey /\ warm' = {}
  /\ up' = FALSE
  /\ FreshWorker

\* The head job's deadline passes, or the worker dies: its heap cap, an error.
Deadline == askJobs # <<>> /\ Fail
Die == up /\ Fail

\* The negative cache forgets a key after its time.
Expire(k) ==
  /\ k \in failed
  /\ failed' = failed \ {k}
  /\ UNCHANGED <<ticket, askJobs, blamable, warm, up, inbox, outbox, worker>>

\* Mutant of Deliver: the mirror only grows.
DeliverGrown ==
  /\ outbox # <<>>
  /\ LET m == outbox[1]
     IN /\ askJobs # <<>> /\ m.id = askJobs[1]
        /\ outbox' = Tail(outbox)
        /\ failed' = failed \cup m.failed
        /\ blamable' = IF m.type = "building" THEN m.key ELSE NoKey
        /\ IF m.type = "reply"
           THEN /\ askJobs' = Tail(askJobs) /\ warm' = warm \cup m.cached /\ ticket' = Into(m.id, "answered")
           ELSE UNCHANGED <<askJobs, warm, ticket>>
        /\ UNCHANGED <<up, inbox, worker>>

\* The next message of the worker: one that is not for the head job is a protocol
\* error; "building" and "built" set and clear the key to blame; a reply answers the
\* job and renews the mirror.
Deliver ==
  /\ outbox # <<>>
  /\ LET m == outbox[1]
     IN IF askJobs = <<>> \/ m.id # askJobs[1]
        THEN Fail
        ELSE /\ outbox' = Tail(outbox)
             /\ failed' = failed \cup m.failed
             /\ blamable' = IF m.type = "building" THEN m.key ELSE NoKey
             /\ IF m.type = "reply"
                THEN /\ askJobs' = Tail(askJobs) /\ warm' = m.cached /\ ticket' = Into(m.id, "answered")
                ELSE UNCHANGED <<askJobs, warm, ticket>>
             /\ UNCHANGED <<up, inbox, worker>>

Post(type, key, bad, cached) ==
  outbox' = Append(outbox, [type |-> type, id |-> inbox[1], key |-> key, failed |-> bad,
                            cached |-> cached])

-----------------------------------------------------------------------------
\* The worker thread.  The request in work stays at the head of the inbox.
Take ==
  /\ inbox # <<>> /\ at = 0
  /\ at' = 1
  /\ failures' = {}
  /\ UNCHANGED <<coordinator, up, inbox, outbox, cache, broken, inBuild>>

Working == inbox # <<>> /\ at > 0 /\ inBuild = NoKey
Request == ticket[inbox[1]]
Candidate == Request.keys[at]

\* The request is answered with what the cache holds now.
Reply ==
  /\ Post("reply", NoKey, failures, ToSet(cache'))
  /\ inbox' = Tail(inbox)
  /\ at' = 0

\* A key is built only if the request was admitted for it, a joined one only if it has
\* not failed in this worker.
MayBuild(k) == k \in Request.cold \/ (k \in Request.joined /\ k \notin broken)

\* Every candidate has been looked at: no match, or "not warm".
Exhausted ==
  /\ Working /\ at > Len(Request.keys)
  /\ cache' = cache
  /\ Reply
  /\ UNCHANGED <<coordinator, up, broken, failures, inBuild>>

Skip ==
  /\ Working /\ at <= Len(Request.keys)
  /\ Candidate \notin ToSet(cache) /\ ~MayBuild(Candidate)
  /\ at' = at + 1
  /\ UNCHANGED <<coordinator, up, inbox, outbox, cache, broken, failures, inBuild>>

\* A warm index moves to the end of the LRU order.  It is for the commit that was asked
\* for and answers, or the next candidate is tried.
Hit ==
  /\ Working /\ at <= Len(Request.keys)
  /\ Candidate \in ToSet(cache)
  /\ \E n \in DOMAIN cache : cache[n] = Candidate /\ cache' = Append(RemoveAt(cache, n), Candidate)
  /\ \/ Reply
     \/ at' = at + 1 /\ UNCHANGED <<inbox, outbox>>
  /\ UNCHANGED <<coordinator, up, broken, failures, inBuild>>

\* The oldest indexes are evicted before the build, which is announced.
BeginBuild ==
  /\ Working /\ at <= Len(Request.keys)
  /\ Candidate \notin ToSet(cache) /\ MayBuild(Candidate)
  /\ cache' = IF Len(cache) >= MaxIndexes
              THEN SubSeq(cache, Len(cache) - MaxIndexes + 2, Len(cache)) ELSE cache
  /\ Post("building", Candidate, {}, {})
  /\ inBuild' = Candidate
  /\ UNCHANGED <<coordinator, up, inbox, at, broken, failures>>

\* The build is done and reported; the search over the new index goes on as after a hit.
BuildDone ==
  /\ inBuild # NoKey
  /\ inBuild' = NoKey
  /\ cache' = Append(cache, inBuild)
  /\ broken' = broken \ {inBuild}
  /\ Post("built", inBuild, {}, {})
  /\ UNCHANGED <<coordinator, up, inbox, at, failures>>

\* The snapshot cannot be read or parsed.
BuildFails ==
  /\ inBuild # NoKey
  /\ inBuild' = NoKey
  /\ broken' = broken \cup {inBuild}
  /\ failures' = failures \cup {inBuild}
  /\ Post("built", inBuild, {inBuild}, {})
  /\ at' = at + 1
  /\ UNCHANGED <<coordinator, up, inbox, cache>>

WorkerStep == Take \/ Exhausted \/ Skip \/ Hit \/ BeginBuild \/ BuildDone \/ BuildFails

AskNext ==
  \/ \E t \in Tickets : (\E list \in CandidateLists : Admit(t, list)) \/ RunTicket(t) \/ ReleaseTicket(t) \/ SettleTicket(t)
  \/ \E k \in Keys : Expire(k)
  \/ Deliver \/ Deadline \/ Die \/ WorkerStep

AskSpec == AskInit /\ [][AskNext]_askVars

\* Every job has a deadline, microtasks run, and the answer handler runs or releases
\* its ticket in a finally clause.
AskFairSpec ==
  /\ AskSpec
  /\ WF_askVars(Deliver) /\ WF_askVars(WorkerStep) /\ WF_askVars(Deadline)
  /\ \A t \in Tickets : WF_askVars(RunTicket(t) \/ ReleaseTicket(t)) /\ WF_askVars(SettleTicket(t))

-----------------------------------------------------------------------------
AskTypeOK ==
  /\ ticket \in [Tickets -> [state : {"none", "admitted", "running", "answered", "done"},
                             keys : Seq(Keys \cup {NoKey}), cold : SUBSET Keys, joined : SUBSET Keys]]
  /\ askJobs \in Seq(Tickets)
  /\ blamable \in Keys \cup {NoKey}
  /\ warm \subseteq Keys /\ failed \subseteq Keys /\ broken \subseteq Keys
  /\ up \in BOOLEAN
  /\ inbox \in Seq(Tickets)
  /\ cache \in Seq(Keys)
  /\ at \in Nat
  /\ inBuild \in Keys \cup {NoKey}

\* "Mirror of the worker's cache after its last reply": whenever the worker is idle and
\* all it posted is delivered, the mirror is the cache, whatever was evicted, failed,
\* timed out or crashed before.
MirrorExact == at = 0 /\ outbox = <<>> => warm = ToSet(cache)

\* "at most 4 are ever alive": the indexes in the cache and the one being built.
IndexesBounded == Len(cache) + (IF inBuild = NoKey THEN 0 ELSE 1) <= MaxIndexes

\* "The worker builds ONLY authorised keys": a build in progress is of a key that a
\* ticket which is not settled may build.
BuildsAuthorised == inBuild # NoKey => inBuild \in Building

\* The messages of the worker are for the head job: the protocol error never happens.
MessagesForHead == outbox # <<>> => askJobs # <<>> /\ outbox[1].id = askJobs[1]

\* At most MaxPending requests wait or are about to.
PendingBounded == Pending <= MaxPending

\* The cap on the keys under build is overrun by the further cold keys of one request
\* and no more.
ColdBuildsBounded ==
  \E list \in CandidateLists : Cardinality(Building) <= MaxColdBuilds - 1 + Len(list)

AskSafe ==
  /\ AskTypeOK /\ MirrorExact /\ IndexesBounded /\ BuildsAuthorised
  /\ MessagesForHead /\ PendingBounded /\ ColdBuildsBounded

\* Every ticket that is admitted is settled and gives back its keys and its place, by a
\* reply, a deadline, a crash or a release.
TicketsSettle == <>[](\A t \in Tickets : ticket[t].state \in {"none", "done"})

=============================================================================
