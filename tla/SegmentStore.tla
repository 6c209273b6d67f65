---------------------------- MODULE SegmentStore ----------------------------
(***************************************************************************)
(* The indexes of one segment and the requests that change them:           *)
(* backend/import-backend.c, with fs_commit and the file handling of       *)
(* backend/backend.c.                                                      *)
(*                                                                         *)
(* Every quad is kept three times: in the subject tree and the object tree *)
(* of its predicate, and in the triple chain of its model.  The child that *)
(* serves a connection buffers inserted quads.  A buffer that fills up     *)
(* turns the import into a pended one: from then on quads go to files that *)
(* are put into the trees when the import stops, while the chains are      *)
(* still written with every batch.                                         *)
(*                                                                         *)
(* One child holds the segment at a time, and a request is one step.       *)
(* Copies of a quad are not told apart, and a buffer may be full after any *)
(* insert.                                                                 *)
(***************************************************************************)
EXTENDS Naturals, FiniteSets

CONSTANTS
    Models, Triples, Preds,
    Pred,           \* the predicate of each triple
    NULL,           \* FS_RID_NULL: any model
    Disturbances    \* what may happen to a pended import, see below

ASSUME SegmentStoreAssumption ==
    /\ Pred \in [Triples -> Preds]
    /\ NULL \notin Models
    /\ Disturbances \subseteq {"overlap", "drop", "crash", "renew"}

VARIABLES
    sIndex, oIndex, \* the quads in the subject and object trees
    models,         \* the models with an entry in the model hash
    chain,          \* chain[m]: the triples in the chain of model m
    superset,       \* the models whose chain carries FS_TBCHAIN_SUPERSET
    savedPreds,     \* the predicates in the file of the predicate list
    preds,          \* the predicates the child knows (ptrees_priv)
    flags,          \* ptree_open_flags: 1 with O_TRUNC
    buffer,         \* quad_buffer
    pendedImport,   \* pended_import
    pended,         \* the quads in the pended lists
    completed       \* history: quads put into the trees and not deleted

trees == <<sIndex, oIndex, savedPreds, preds>>
modelIndex == <<models, chain, superset>>
session == <<flags, buffer, pendedImport, pended>>
vars == <<trees, modelIndex, session, completed>>

Quads == Models \X Triples
PredOf(q) == Pred[q[2]]

(* Queries, deletions and new models overlap a pended import only if       *)
(* "overlap" is in Disturbances, and its connection is closed before STOP  *)
(* IMPORT only if "drop" is.  The child is killed in an import, or between *)
(* STOP IMPORT and the next commit, only if "crash" is, and NEW MODELS     *)
(* names a model that has quads only if "renew" is.                        *)
MayOverlap == pendedImport = 0 \/ "overlap" \in Disturbances
MayDrop == pendedImport = 0 \/ "drop" \in Disturbances

Init ==
    /\ sIndex = {} /\ oIndex = {}
    /\ models = {} /\ chain = [m \in Models |-> {}] /\ superset = {}
    /\ savedPreds = {} /\ preds = {}
    /\ flags = 0 /\ buffer = {} /\ pendedImport = 0 /\ pended = {}
    /\ completed = {}
-----------------------------------------------------------------------------
\* Mutant: the trees of a batch are opened again, known or not.
OpenedAgain(index, Q) ==
    IF flags = 0 THEN index
    ELSE {q \in index : PredOf(q) \notin {PredOf(p) : p \in Q}}

(* Opening the trees of a new predicate: with O_TRUNC they lose what a     *)
(* file of that name had.                                                  *)
Opened(index, Q) ==
    IF flags = 0 THEN index
    ELSE {q \in index : PredOf(q) \notin {PredOf(p) : p \in Q} \ preds}

(* The two passes over the trees. *)
AddToTrees(Q) ==
    /\ sIndex' = Opened(sIndex, Q) \cup Q
    /\ oIndex' = Opened(oIndex, Q) \cup Q
    /\ preds' = preds \cup {PredOf(q) : q \in Q}
    /\ completed' = completed \cup Q

\* Mutant: a chain is made for every batch.
AddToChainsAfresh(Q) ==
    /\ models' = models \cup {q[1] : q \in Q}
    /\ chain' = [m \in Models |->
            IF m \in {q[1] : q \in Q} THEN {t \in Triples : <<m, t>> \in Q} ELSE chain[m]]
    /\ UNCHANGED superset

(* The last part of fs_quad_import_commit. *)
AddToChains(Q) ==
    /\ models' = models \cup {q[1] : q \in Q}
    /\ chain' = [m \in Models |-> chain[m] \cup {t \in Triples : <<m, t>> \in Q}]
    /\ UNCHANGED superset

\* Mutant: a pended batch is not entered in the chains.
CommitPendedTreesOnly(Q) ==
    /\ pendedImport' = 1
    /\ pended' = (IF pendedImport = 1 THEN pended ELSE {}) \cup Q
    /\ savedPreds' = preds
    /\ buffer' = {}
    /\ UNCHANGED <<sIndex, oIndex, preds, completed, flags, modelIndex>>

(* fs_quad_import_commit in a pended import. *)
CommitPended(Q) ==
    /\ pendedImport' = 1
    /\ pended' = (IF pendedImport = 1 THEN pended ELSE {}) \cup Q
    /\ savedPreds' = preds
    /\ AddToChains(Q)
    /\ buffer' = {}
    /\ UNCHANGED <<sIndex, oIndex, preds, completed, flags>>

(* INSERT QUAD: the buffer takes the quad, *)
InsertQuad(q) ==
    /\ buffer' = buffer \cup {q}
    /\ UNCHANGED <<trees, modelIndex, flags, pendedImport, pended, completed>>

(* or is full with it and is written out. *)
InsertQuadFull(q) == CommitPended(buffer \cup {q})

(* COMMIT QUAD. *)
CommitQuad ==
    \/ /\ pendedImport = 1
       /\ CommitPended(buffer)
    \/ /\ pendedImport = 0
       /\ AddToTrees(buffer)
       /\ savedPreds' = preds'
       /\ AddToChains(buffer)
       /\ buffer' = {}
       /\ UNCHANGED <<flags, pendedImport, pended>>

\* Mutant: the import stops without its object trees.
StopImportOnePass ==
    /\ IF pendedImport = 1
       THEN /\ sIndex' = Opened(sIndex, pended) \cup pended
            /\ oIndex' = Opened(oIndex, pended)
            /\ preds' = preds \cup {PredOf(q) : q \in pended}
            /\ completed' = completed \cup pended
       ELSE UNCHANGED <<sIndex, oIndex, preds, completed>>
    /\ pendedImport' = 0 /\ pended' = {}
    /\ UNCHANGED <<savedPreds, modelIndex, flags, buffer>>

(* STOP IMPORT: fs_commit.  New predicates are added to the predicate list *)
(* but stay in its buffer.                                                 *)
StopImport ==
    /\ IF pendedImport = 1 THEN AddToTrees(pended) ELSE UNCHANGED <<sIndex, oIndex, preds, completed>>
    /\ pendedImport' = 0 /\ pended' = {}
    /\ UNCHANGED <<savedPreds, modelIndex, flags, buffer>>
-----------------------------------------------------------------------------
(* What a subject tree can be searched for. *)
Found(m, t) == Pred[t] \in preds /\ <<m, t>> \in sIndex

(* A query for a model walks its chain.  A marked chain is swept of what   *)
(* the subject trees do not have, and is unmarked at its end.              *)
QueryModel(m) ==
    /\ MayOverlap
    /\ m \in models \cap superset
    /\ chain' = [chain EXCEPT ![m] = {t \in @ : Found(m, t)}]
    /\ superset' = superset \ {m}
    /\ UNCHANGED <<trees, models, session, completed>>

(* A query that reaches its limit sweeps a part. *)
QueryModelLimited(m) ==
    /\ MayOverlap
    /\ m \in models \cap superset
    /\ \E rest \in SUBSET {t \in chain[m] : ~Found(m, t)} :
          chain' = [chain EXCEPT ![m] = {t \in @ : Found(m, t)} \cup rest]
    /\ UNCHANGED <<trees, models, superset, session, completed>>

(* DELETE QUADS, for one quad or for a triple in any model.  The chains of *)
(* the model, or of the models the trees report, are marked.               *)
DeleteQuads(m, t) ==
    /\ MayOverlap
    /\ LET gone == {q \in Quads : q[2] = t /\ m \in {NULL, q[1]} /\ Pred[t] \in preds}
           reported == {q[1] : q \in gone \cap (sIndex \cup oIndex)}
       IN /\ sIndex' = sIndex \ gone
          /\ oIndex' = oIndex \ gone
          /\ superset' = superset \cup (models \cap (reported \cup {m}))
          /\ completed' = completed \ gone
    /\ UNCHANGED <<savedPreds, preds, models, chain, session>>

(* The model hash has no entry for the models D any more. *)
ForgetModels(D) ==
    /\ models' = models \ D
    /\ chain' = [m \in Models |-> IF m \in D THEN {} ELSE chain[m]]
    /\ superset' = superset \ D

(* DELETE MODELS of one small model: the quads of its chain are looked up  *)
(* in the trees (remove_by_search).                                        *)
DeleteModelBySearch(m) ==
    /\ MayOverlap
    /\ m \in models
    /\ LET listed == IF m \in superset THEN {t \in chain[m] : Found(m, t)} ELSE chain[m]
           gone == {m} \X {t \in listed : Pred[t] \in preds}
       IN /\ sIndex' = sIndex \ gone
          /\ oIndex' = oIndex \ gone
          /\ completed' = completed \ gone
    /\ ForgetModels({m})
    /\ UNCHANGED <<savedPreds, preds, session>>

(* DELETE MODELS by a walk over all trees; the object tree is skipped if   *)
(* the subject tree had nothing of the model.                              *)
DeleteModelsByWalk(D) ==
    /\ MayOverlap
    /\ LET sGone == {q \in sIndex : q[1] \in D /\ PredOf(q) \in preds}
           oGone == {q \in oIndex : /\ q[1] \in D /\ PredOf(q) \in preds
                                    /\ \E p \in sGone : p[1] = q[1] /\ PredOf(p) = PredOf(q)}
       IN /\ sIndex' = sIndex \ sGone
          /\ oIndex' = oIndex \ oGone
          /\ completed' = completed \ sGone
    /\ ForgetModels(D)
    /\ UNCHANGED <<savedPreds, preds, session>>

DeleteModels(D) ==
    \/ DeleteModelsByWalk(D)
    \/ \E m \in D : D = {m} /\ DeleteModelBySearch(m)

(* DELETE MODELS of FS_RID_NULL: the files of the known predicates are     *)
(* removed and all files are opened with O_TRUNC.                          *)
DeleteAll ==
    /\ MayOverlap
    /\ sIndex' = {q \in sIndex : PredOf(q) \notin preds}
    /\ oIndex' = {q \in oIndex : PredOf(q) \notin preds}
    /\ savedPreds' = {} /\ preds' = {}
    /\ ForgetModels(Models)
    /\ flags' = 1
    /\ completed' = {}
    /\ UNCHANGED <<buffer, pendedImport, pended>>

(* NEW MODELS: the entry of the model is set to zero, which the clients do *)
(* after they have deleted the model, with one exception ("renew").        *)
NewModel(m) ==
    /\ MayOverlap
    /\ "renew" \in Disturbances \/ m \notin models
    /\ ForgetModels({m})
    /\ UNCHANGED <<trees, session, completed>>

(* The connection is closed: fs_backend_fini, and a new child. *)
Disconnect ==
    /\ MayDrop
    /\ savedPreds' = preds
    /\ flags' = 0 /\ buffer' = {} /\ pendedImport' = 0 /\ pended' = {}
    /\ UNCHANGED <<sIndex, oIndex, preds, modelIndex, completed>>

(* The child is killed by a signal; mapped files keep what it wrote. *)
Crash ==
    /\ (pendedImport = 0 /\ preds = savedPreds) \/ "crash" \in Disturbances
    /\ preds' = savedPreds
    /\ flags' = 0 /\ buffer' = {} /\ pendedImport' = 0 /\ pended' = {}
    /\ UNCHANGED <<sIndex, oIndex, savedPreds, modelIndex, completed>>

Next ==
    \/ \E q \in Quads : InsertQuad(q) \/ InsertQuadFull(q)
    \/ CommitQuad
    \/ StopImport
    \/ \E m \in Models : QueryModel(m) \/ QueryModelLimited(m) \/ NewModel(m)
    \/ \E m \in Models \cup {NULL}, t \in Triples : DeleteQuads(m, t)
    \/ \E D \in SUBSET Models \ {{}} : DeleteModels(D)
    \/ DeleteAll
    \/ Disconnect
    \/ Crash

Spec == Init /\ [][Next]_vars
-----------------------------------------------------------------------------
(* The state of a segment; a model without an entry has no chain. *)
TypeOK ==
    /\ sIndex \subseteq Quads /\ oIndex \subseteq Quads
    /\ models \subseteq Models /\ superset \subseteq models
    /\ chain \in [Models -> SUBSET Triples]
    /\ \A m \in Models \ models : chain[m] = {}
    /\ savedPreds \subseteq Preds /\ preds \subseteq Preds
    /\ flags \in {0, 1} /\ pendedImport \in {0, 1}
    /\ buffer \subseteq Quads /\ pended \subseteq Quads
    /\ pendedImport = 0 => pended = {}
    /\ completed \subseteq Quads

(* The subject trees and the object trees hold the same quads: the two     *)
(* passes of a commit, the two sorts of the pended lists and the skipped   *)
(* object trees of a deletion agree.                                       *)
IndexesAgree == sIndex = oIndex

(* A quad of the trees is in the chain of its model, so that deleting the  *)
(* model by its chain and listing the model miss none.                     *)
ChainsCoverTrees == \A q \in sIndex : q[2] \in chain[q[1]]

(* A chain has triples "that don't appear in the graph" only if its bit is *)
(* set, once no import is in progress (tbchain.h).                         *)
SupersetBitIsSet ==
    pendedImport = 0 =>
        \A m \in Models \ superset : \A t \in chain[m] : Found(m, t)

(* The trees, as far as their predicates are known, with the queue of the  *)
(* child.                                                                  *)
Graph == {q \in sIndex : PredOf(q) \in preds}
Store == INSTANCE QuadStore WITH graph <- Graph, pending <- buffer \cup pended

(* The segment is a set of quads: what a request inserts or deletes, and   *)
(* nothing else, appears and disappears.                                   *)
ImplementsQuadStore == Store!Spec

(* After DELETE MODELS the trees have no quad of the models (docs/protocol *)
(* "to delete an entire model").                                           *)
DeletedModelsAreGone ==
    [][\A D \in SUBSET Models \ {{}} :
          DeleteModels(D) => \A q \in Graph' : q[1] \notin D]_vars

(* The trees of the predicates of a chain are there ("failed to get ptrees *)
(* for pred"), for quads that had been put into the trees.                 *)
ChainPredicatesKnown ==
    \A m \in Models : \A t \in chain[m] : <<m, t>> \in completed => Pred[t] \in preds

(* The chains of models match the predicate trees as far as their users    *)
(* (deletion, iteration) rely on it.                                       *)
ChainsMatchTrees == ChainsCoverTrees /\ SupersetBitIsSet
=============================================================================
