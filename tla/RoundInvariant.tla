--------------------------- MODULE RoundInvariant ---------------------------
(***************************************************************************)
(* The inductive invariant behind the safety properties of RoundProtocol,  *)
(* in parts that are each about one mechanism.  RoundProtocolProofs shows  *)
(* that it is inductive; TLC checks it on the instances of MCRoundProtocol.*)
(***************************************************************************)
EXTENDS RoundProtocol

\* Phases in which tasks of the current round may exist.
Published == {"wait", "collect", "aggregate", "serve", "end", "finish",
              "stopped", "down", "crashed"}

\* A round at which a task may be out: past, or current and published.
Known(r) == r <= round /\ (r = round => phase \in Published)

HandedOut(u) == handed[TaskOf(u)] > 0

\* A worker that has yet to send has an attempt left.
RetryInv ==
  \A w \in Worker :
    wphase[w] \in {"fetch", "train", "send"} => attempt[w] < MaxRetries

\* Queued tasks are in one queue, of a known round and not handed out yet, and
\* nothing is queued between the planner's reset and the publication.
QueueInv ==
  /\ \A w \in Worker : \A t \in roundTasks[w] : handed[t] = 0 /\ Known(t.round)
  /\ \A v, w \in Worker : v # w => roundTasks[v] \cap roundTasks[w] = {}
  /\ phase = "publish" => \A w \in Worker : roundTasks[w] = {}

HandedInv ==
  /\ TaskHandedOnce
  /\ \A t \in Task : handed[t] > 0 => Known(t.round)

\* Whatever carries an update, its task was handed out.
CarrierInv ==
  /\ \A w \in Worker : wphase[w] \in Busy => HandedOut(job[w])
  /\ \A m \in net : HandedOut(m.update)
  /\ \A h \in handler : HandedOut(h.msg.update)
  /\ \A i \in DOMAIN pendingUpdates : HandedOut(pendingUpdates[i])
  /\ \A t \in acked : handed[t] > 0

\* The upload inside the lock against the list: a first upload finds no entry of
\* its key, a duplicate of the current round still finds one, and a list that
\* was replaced under the handler concerns an older round.
HandlerInv ==
  \A h \in handler :
    /\ ~h.dup => \A i \in DOMAIN pendingUpdates :
                   TaskOf(pendingUpdates[i]) # TaskOf(h.msg.update)
    /\ h.dup /\ h.msg.update.round = round =>
         \E i \in DOMAIN pendingUpdates :
           TaskOf(pendingUpdates[i]) = TaskOf(h.msg.update)
    /\ h.reset => h.msg.update.round < round

\* While a round collects, its own updates were computed from the adapter they
\* will be added to.
Current(u) == u.round = round => u.base = adapter

BaseInv ==
  /\ phase # "serve" => served = adapter
  /\ phase = "serve" /\ DOMAIN received = {} => served = adapter
  /\ phase \in {"wait", "collect", "aggregate"} =>
       /\ \A w \in Worker : wphase[w] \in {"train", "send", "await"} => Current(job[w])
       /\ \A m \in net : Current(m.update)
       /\ \A h \in handler : Current(h.msg.update)
       /\ \A i \in DOMAIN pendingUpdates : Current(pendingUpdates[i])

\* What aggregation reads is a part of the list.
ReceivedInv ==
  /\ phase = "aggregate" =>
       \A i \in DOMAIN received :
         i \in DOMAIN pendingUpdates /\ received[i] = pendingUpdates[i]
  /\ phase \in {"wait", "collect", "aggregate"} =>
       /\ completed \subseteq leases
       /\ \A c \in completed :
            \E i \in DOMAIN pendingUpdates : pendingUpdates[i].client = c

\* Phases of a round before its aggregation.
Early == {"boot", "begin", "select", "plan", "publish", "wait", "collect", "aggregate"}

\* A round's entry of the ledger is written by its own aggregation only.
LedgerInv ==
  /\ \A r \in Round : \A t \in ledger[r] : handed[t] > 0 /\ t.round <= r
  /\ \A r \in Round :
       r > round \/ (r = round /\ phase \in Early) => ledger[r] = {}

IInv ==
  /\ TypeOK
  /\ RetryInv
  /\ QueueInv
  /\ HandedInv
  /\ CarrierInv
  /\ HandlerInv
  /\ PendingUnique
  /\ AckedKept
  /\ BaseInv
  /\ ReceivedInv
  /\ ReceivedMatchesCompleted
  /\ LedgerInv
=============================================================================
