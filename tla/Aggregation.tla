---------------------------- MODULE Aggregation ----------------------------
(***************************************************************************)
(* The data path of a round (src/rpc/peft_exec): the slice registry built  *)
(* from the model, the adapter a worker loads into its model, the part of  *)
(* it that a lease lets it train, the delta it sends, the average of the   *)
(* deltas and what FeedbackState is told of it.                            *)
(*                                                                         *)
(* A worker has one model for all the clients it serves: what one task has *)
(* trained is still there when the next one begins.  Adapters are float32; *)
(* the model keeps some of its parameters (the heads, in modules_to_save)  *)
(* in bfloat16, so that loading and training round them.                   *)
(*                                                                         *)
(* A parameter is one number; deltas are summed exactly and divided at the *)
(* resolution of the integers.                                             *)
(***************************************************************************)
EXTENDS Integers, FiniteSets, FiniteSetsExt

CONSTANTS
  Param,      \* trainable parameters: names with "lora_" or "modules_to_save"
  Head,       \* those of modules_to_save
  LayerOf,    \* _extract_layer_index of the others, 0 where it finds none
  Bundles,    \* values of bundle_size
  Coarse,     \* parameters the model keeps in bfloat16
  Grid,       \* distance of two bfloat16 values
  Worker, Client,
  None,       \* no task
  Moves,      \* how far local training may move a parameter
  Examples,   \* num_examples of a task
  NumRounds   \* bound: rounds

ASSUME LayoutAssumption ==
  /\ IsFiniteSet(Param)
  /\ Head \subseteq Param
  /\ LayerOf \in [Param \ Head -> Nat]
  /\ Bundles \subseteq Nat \ {0}
ASSUME ValueAssumption ==
  /\ Coarse \subseteq Param
  /\ Grid \in Nat \ {0}
  /\ Moves \subseteq Int
  /\ Examples \subseteq Nat \ {0}
  /\ NumRounds \in Nat

VARIABLES
  bundle,   \* bundle_size, the same at coordinator and workers
  round,    \* round_id
  leased,   \* clients that have been handed their task of this round
  global,   \* global_adapter
  model,    \* the adapter parameters of each worker's model
  task,     \* what each worker executes
  pending,  \* updates that have arrived
  told,     \* updated_slices of the last round: which slice got whose update
  before,   \* history: the adapter of the round before
  counted   \* history: the updates the last round has averaged

vars == <<bundle, round, leased, global, model, task, pending, told, before, counted>>

Adapter == [Param -> Int]
-----------------------------------------------------------------------------
(* build_slice_registry *)

Layers == {LayerOf[p] : p \in Param \ Head}

\* The position of a layer in sorted_layers.
Rank(l) == Cardinality({m \in Layers : m < l})

NumBundles == (Cardinality(Layers) + bundle - 1) \div bundle

\* slice_head comes last, and only if there is a head.
Slice == 0 .. NumBundles - (IF Head = {} THEN 1 ELSE 0)

\* Mutant of Bundle: layers are bundled by their number, not by their position.
BundleByNumber(s) == {p \in Param \ Head : LayerOf[p] \div bundle = s}

Bundle(s) == {p \in Param \ Head :
                Rank(LayerOf[p]) >= s * bundle /\ Rank(LayerOf[p]) < (s + 1) * bundle}

Registry(s) == IF s = NumBundles THEN Head ELSE Bundle(s)
-----------------------------------------------------------------------------
(* The worker *)

\* Conversion to the precision the model keeps the parameter in.
Stored(p, v) == IF p \in Coarse THEN (v \div Grid) * Grid ELSE v

\* load_lora_state_dict: every parameter of the adapter, leased or not.
Loaded == [p \in Param |-> Stored(p, global[p])]

\* apply_trainable_mask: the heads can be trained whatever the lease says.
Trainable(params) == params \cup Head

\* The task is polled, the adapter downloaded and loaded.
BeginTask(w, c, S) ==
  LET params == UNION {Registry(s) : s \in S}
  IN  /\ round < NumRounds
      /\ task[w] = None
      /\ c \notin leased
      /\ S # {}
      /\ leased' = leased \cup {c}
      /\ task' = [task EXCEPT ![w] = [round |-> round, client |-> c, slices |-> S,
                                      params |-> params, base |-> global]]
      /\ model' = [model EXCEPT ![w] = Loaded]
      /\ UNCHANGED <<bundle, round, global, pending, told, before, counted>>

\* local_train
Trained(w, m) ==
  [p \in Param |-> IF p \in Trainable(task[w].params)
                     THEN Stored(p, model[w][p] + m)
                     ELSE model[w][p]]

\* Mutant of Delta: taken against what the model had loaded.
DeltaOfModel(t, trained) == [p \in t.params |-> trained[p] - Stored(p, t.base[p])]

\* extract_lora_delta: against the adapter as it was downloaded.
Delta(t, trained) == [p \in t.params |-> trained[p] - t.base[p]]

\* The task is trained and uploaded; the upload may come to nothing.
EndTask(w, m, n) ==
  LET t == task[w]
      trained == Trained(w, m)
  IN  /\ t # None
      /\ model' = [model EXCEPT ![w] = trained]
      /\ task' = [task EXCEPT ![w] = None]
      /\ pending' \in {pending,
                       pending \cup {[round |-> t.round, client |-> t.client, slices |-> t.slices,
                                      delta |-> Delta(t, trained), examples |-> n,
                                      trained |-> trained, base |-> t.base]}}
      /\ UNCHANGED <<bundle, round, leased, global, told, before, counted>>
-----------------------------------------------------------------------------
(* The coordinator *)

Touching(U, p) == {u \in U : p \in DOMAIN u.delta}

Weight(U) == LET Count(u) == u.examples IN MapThenSumSet(Count, U)

\* aggregate_partial_deltas, with server_lr 1
Averaged(U) ==
  [p \in Param |->
     LET T == Touching(U, p)
         Share(u) == u.examples * u.delta[p]
     IN  IF T = {} THEN global[p]
         ELSE global[p] + MapThenSumSet(Share, T) \div Weight(T)]

\* The first slice of the registry that lists p.
SliceOf(p) == CHOOSE s \in Slice : p \in Registry(s) /\ \A r \in Slice : p \in Registry(r) => s <= r

\* Mutant of Told: updates that missed the deadline are reported as well.
ToldOfAll(U) == UNION {{<<SliceOf(p), u.client>> : p \in DOMAIN u.delta} : u \in pending}

\* updated_slices, from the names of the parameters that were sent
Told(U) == UNION {{<<SliceOf(p), u.client>> : p \in DOMAIN u.delta} : u \in U}

\* The end of the round: updates of clients that missed the deadline are left
\* out.  A task that is still executed is then an update of a later round.
Aggregate(U) ==
  /\ round < NumRounds
  /\ global' = Averaged(U)
  /\ told' = Told(U)
  /\ before' = global
  /\ counted' = U
  /\ pending' = {}
  /\ leased' = {}
  /\ round' = round + 1
  /\ UNCHANGED <<bundle, model, task>>
-----------------------------------------------------------------------------
Zero == [p \in Param |-> 0]

Init ==
  /\ bundle \in Bundles
  /\ round = 0
  /\ leased = {}
  /\ global = Zero
  /\ model = [w \in Worker |-> Zero]
  /\ task = [w \in Worker |-> None]
  /\ pending = {}
  /\ told = {}
  /\ before = Zero
  /\ counted = {}

Next ==
  \/ \E w \in Worker, c \in Client, S \in SUBSET Slice : BeginTask(w, c, S)
  \/ \E w \in Worker, m \in Moves, n \in Examples : EndTask(w, m, n)
  \/ \E U \in SUBSET pending : Aggregate(U)

Spec == Init /\ [][Next]_vars
-----------------------------------------------------------------------------
(* Properties *)

\* No slice is empty, and every parameter is in exactly one.
Partition ==
  /\ \A s \in Slice : Registry(s) # {}
  /\ \A p \in Param : \E s \in Slice : p \in Registry(s)
  /\ \A s, r \in Slice : s # r => Registry(s) \cap Registry(r) = {}

\* Every variable has its type, and the registry is a partition whatever numbers
\* the layers have (lora_utils.py:13-46).
TypeOK ==
  /\ bundle \in Bundles
  /\ round \in 0 .. NumRounds
  /\ leased \subseteq Client
  /\ global \in Adapter /\ before \in Adapter
  /\ model \in [Worker -> Adapter]
  /\ \A w \in Worker : task[w] # None => task[w].base \in Adapter /\ task[w].client \in Client
  /\ \A u \in pending \cup counted : DOMAIN u.delta \subseteq Param /\ u.examples \in Examples
  /\ told \subseteq Slice \X Client
  /\ Partition

\* How far the task of u has come from the adapter it downloaded, rounding
\* included: a head that has not learned one bfloat16 step moves back.
Progress(u, p) == u.trained[p] - u.base[p]

\* A parameter ends between the least and the greatest of the values that the
\* clients have trained, stale ones counted from the adapter they had; the value
\* of a single client is taken over exactly, although what it trained had been
\* rounded; what nobody has sent stays (aggregation.py:41-57, delta_utils.py:21).
AverageOfModels ==
  \A p \in Param :
    LET moves == {before[p] + Progress(u, p) : u \in Touching(counted, p)}
    IN  IF moves = {} THEN global[p] = before[p]
        ELSE Min(moves) <= global[p] /\ global[p] <= Max(moves)

\* FeedbackState learns of a slice exactly when all of its parameters have been
\* averaged, and from whom: what it is told is worked out from the names of the
\* parameters, not from the lease (coordinator.py:416-425).
FeedbackIsTruth ==
  /\ told = UNION {u.slices \X {u.client} : u \in counted}
  /\ \A u \in counted : DOMAIN u.delta = UNION {Registry(s) : s \in u.slices}
=============================================================================
