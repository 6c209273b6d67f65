------------------------- MODULE SegmentStoreProofs -------------------------
(***************************************************************************)
(* The three indexes of a segment agree.  That the two kinds of tree agree *)
(* is inductive on its own.  What relates the chains to the trees needs    *)
(* the quads that wait in the pended lists: they are in the chains before  *)
(* they are in the trees.                                                  *)
(***************************************************************************)
EXTENDS SegmentStore, TLAPS

(* Subject and object trees hold the same quads in every reachable state,  *)
(* also after a walk that skips object trees, and under all disturbances.  *)
THEOREM TreesAgree == Spec => []IndexesAgree
<1>1. Init => IndexesAgree
  BY DEF Init, IndexesAgree
<1>2. IndexesAgree /\ [Next]_vars => IndexesAgree'
  <2> SUFFICES ASSUME IndexesAgree, [Next]_vars PROVE IndexesAgree'
    OBVIOUS
  <2> USE DEF IndexesAgree
  <2>1. ASSUME NEW q \in Quads, InsertQuad(q) PROVE IndexesAgree'
    BY <2>1 DEF InsertQuad, trees
  <2>2. ASSUME NEW q \in Quads, InsertQuadFull(q) PROVE IndexesAgree'
    BY <2>2 DEF InsertQuadFull, CommitPended
  <2>3. CASE CommitQuad
    BY <2>3 DEF CommitQuad, CommitPended, AddToTrees
  <2>4. CASE StopImport
    BY <2>4 DEF StopImport, AddToTrees
  <2>5. ASSUME NEW m \in Models, QueryModel(m) \/ QueryModelLimited(m) \/ NewModel(m)
        PROVE IndexesAgree'
    BY <2>5 DEF QueryModel, QueryModelLimited, NewModel, trees
  <2>6. ASSUME NEW m \in Models \cup {NULL}, NEW t \in Triples, DeleteQuads(m, t)
        PROVE IndexesAgree'
    BY <2>6 DEF DeleteQuads
  <2>7. ASSUME NEW D \in SUBSET Models \ {{}}, DeleteModels(D) PROVE IndexesAgree'
    <3>1. CASE DeleteModelsByWalk(D)
      <4> DEFINE sGone == {q \in sIndex : q[1] \in D /\ PredOf(q) \in preds}
                 oGone == {q \in oIndex : /\ q[1] \in D /\ PredOf(q) \in preds
                                          /\ \E p \in sGone : p[1] = q[1] /\ PredOf(p) = PredOf(q)}
      <4>1. sIndex' = sIndex \ sGone /\ oIndex' = oIndex \ oGone
        BY <3>1 DEF DeleteModelsByWalk
      <4>2. oGone = sGone
        OBVIOUS
      <4> QED BY <4>1, <4>2
    <3>2. ASSUME NEW m \in D, DeleteModelBySearch(m) PROVE IndexesAgree'
      BY <3>2 DEF DeleteModelBySearch
    <3> QED BY <2>7, <3>1, <3>2 DEF DeleteModels
  <2>8. CASE DeleteAll
    BY <2>8 DEF DeleteAll
  <2>9. CASE Disconnect
    BY <2>9 DEF Disconnect
  <2>10. CASE Crash
    BY <2>10 DEF Crash
  <2>11. CASE UNCHANGED vars
    BY <2>11 DEF vars, trees
  <2> QED BY <2>1, <2>2, <2>3, <2>4, <2>5, <2>6, <2>7, <2>8, <2>9, <2>10, <2>11 DEF Next
<1> QED BY <1>1, <1>2, PTL DEF Spec
-----------------------------------------------------------------------------
(* The invariant for imports that nothing disturbs.  A quad that waits in  *)
(* the pended lists counts as a quad of the trees.                         *)
TreesKnown == \A q \in sIndex : PredOf(q) \in preds
Covered == \A m \in Models, t \in Triples : <<m, t>> \in sIndex \cup pended => t \in chain[m]
Exact == \A m \in Models \ superset : \A t \in chain[m] : <<m, t>> \in sIndex \cup pended
Inv == TypeOK /\ TreesKnown /\ Covered /\ Exact

(* A quad is its model and its triple. *)
LEMMA QuadParts == \A q \in Quads : /\ q = <<q[1], q[2]>>
                                     /\ q[1] \in Models /\ q[2] \in Triples
  BY DEF Quads

(* The predicates of quads are predicates. *)
LEMMA PredTyped == \A q \in Quads : PredOf(q) \in Preds
  BY SegmentStoreAssumption, QuadParts DEF PredOf

(* A batch of quads that goes to the pended lists and the chains keeps the *)
(* invariant.                                                              *)
LEMMA PendedKeepsInv ==
    ASSUME Inv, NEW Q \in SUBSET Quads, CommitPended(Q) PROVE Inv'
<1> USE DEF Inv
<1>1. /\ models' = models \cup {q[1] : q \in Q}
      /\ chain' = [m \in Models |-> chain[m] \cup {t \in Triples : <<m, t>> \in Q}]
      /\ superset' = superset /\ pendedImport' = 1 /\ buffer' = {}
      /\ savedPreds' = preds
      /\ UNCHANGED <<sIndex, oIndex, preds, completed, flags>>
  BY DEF CommitPended, AddToChains
<1>2. pended' = pended \cup Q
  BY DEF CommitPended, TypeOK
<1>3. TypeOK'
  <2>1. models' \subseteq Models /\ superset' \subseteq models'
    BY <1>1, QuadParts DEF TypeOK
  <2>2. chain' \in [Models -> SUBSET Triples]
    BY <1>1 DEF TypeOK
  <2>3. \A m \in Models \ models' : chain'[m] = {}
    <3> SUFFICES ASSUME NEW m \in Models \ models', NEW t \in chain'[m] PROVE FALSE
      BY <2>2
    <3>1. chain[m] = {} /\ \A q \in Q : q[1] # m
      BY <1>1 DEF TypeOK
    <3>2. <<m, t>> \in Q
      BY <1>1, <3>1
    <3> QED BY <3>1, <3>2
  <2> QED BY <1>1, <1>2, <2>1, <2>2, <2>3 DEF TypeOK
<1>4. TreesKnown'
  BY <1>1 DEF TreesKnown, PredOf
<1>5. Covered'
  BY <1>1, <1>2 DEF Covered, TypeOK
<1>6. Exact'
  BY <1>1, <1>2 DEF Exact, TypeOK
<1> QED BY <1>3, <1>4, <1>5, <1>6

(* So does a batch that goes to the trees and the chains. *)
LEMMA CommitKeepsInv ==
    ASSUME Inv, CommitQuad PROVE Inv'
<1> USE DEF Inv
<1>1. CASE pendedImport = 1
  <2>1. CommitPended(buffer)
    BY <1>1 DEF CommitQuad
  <2> QED BY <2>1, PendedKeepsInv DEF TypeOK
<1>2. CASE pendedImport = 0
  <2>1. /\ sIndex' = Opened(sIndex, buffer) \cup buffer
        /\ oIndex' = Opened(oIndex, buffer) \cup buffer
        /\ preds' = preds \cup {PredOf(q) : q \in buffer}
        /\ completed' = completed \cup buffer
        /\ models' = models \cup {q[1] : q \in buffer}
        /\ chain' = [m \in Models |-> chain[m] \cup {t \in Triples : <<m, t>> \in buffer}]
        /\ savedPreds' = preds' /\ buffer' = {}
        /\ UNCHANGED <<superset, flags, pendedImport, pended>>
    BY <1>2 DEF CommitQuad, AddToTrees, AddToChains
  <2>2. Opened(sIndex, buffer) = sIndex /\ Opened(oIndex, buffer) \subseteq oIndex
    BY DEF Opened, TreesKnown
  <2>3. buffer \subseteq Quads /\ pended = {} /\ sIndex \subseteq Quads
    BY <1>2 DEF TypeOK
  <2>4. {PredOf(q) : q \in buffer} \subseteq Preds
    BY <2>3, PredTyped
  <2>5. TypeOK'
    <3>1. models' \subseteq Models /\ superset' \subseteq models'
      BY <2>1, <2>3, QuadParts DEF TypeOK
    <3>2. chain' \in [Models -> SUBSET Triples]
      BY <2>1 DEF TypeOK
    <3>3. \A m \in Models \ models' : chain'[m] = {}
      <4> SUFFICES ASSUME NEW m \in Models \ models', NEW t \in chain'[m] PROVE FALSE
        BY <3>2
      <4>1. chain[m] = {} /\ \A q \in buffer : q[1] # m
        BY <2>1 DEF TypeOK
      <4>2. <<m, t>> \in buffer
        BY <2>1, <4>1
      <4> QED BY <4>1, <4>2
    <3>4. /\ sIndex' \subseteq Quads /\ oIndex' \subseteq Quads
          /\ savedPreds' \subseteq Preds /\ preds' \subseteq Preds
          /\ completed' \subseteq Quads
      BY <2>1, <2>2, <2>3, <2>4 DEF TypeOK
    <3> QED BY <2>1, <3>1, <3>2, <3>3, <3>4 DEF TypeOK
  <2>6. TreesKnown'
    BY <2>1, <2>2 DEF TreesKnown, PredOf
  <2>7. Covered'
    BY <2>1, <2>2, <2>3 DEF Covered, TypeOK
  <2>8. Exact'
    BY <2>1, <2>2, <2>3 DEF Exact, TypeOK
  <2> QED BY <2>5, <2>6, <2>7, <2>8
<1> QED BY <1>1, <1>2 DEF TypeOK

(* At STOP IMPORT the pended quads move to the trees. *)
LEMMA StopKeepsInv ==
    ASSUME Inv, StopImport PROVE Inv'
<1> USE DEF Inv
<1>1. pendedImport' = 0 /\ pended' = {} /\ UNCHANGED <<savedPreds, models, chain, superset, flags, buffer>>
  BY DEF StopImport, modelIndex
<1>2. CASE pendedImport = 1
  <2>1. /\ sIndex' = Opened(sIndex, pended) \cup pended
        /\ oIndex' = Opened(oIndex, pended) \cup pended
        /\ preds' = preds \cup {PredOf(q) : q \in pended}
        /\ completed' = completed \cup pended
    BY <1>2 DEF StopImport, AddToTrees
  <2>2. Opened(sIndex, pended) = sIndex /\ Opened(oIndex, pended) \subseteq oIndex
    BY DEF Opened, TreesKnown
  <2>3. {PredOf(q) : q \in pended} \subseteq Preds
    BY PredTyped DEF TypeOK
  <2>4. TypeOK'
    BY <1>1, <2>1, <2>2, <2>3 DEF TypeOK
  <2>5. TreesKnown'
    BY <2>1, <2>2 DEF TreesKnown, PredOf
  <2>6. Covered' /\ Exact'
    BY <1>1, <2>1, <2>2 DEF Covered, Exact
  <2> QED BY <2>4, <2>5, <2>6
<1>3. CASE pendedImport = 0
  <2>1. UNCHANGED <<sIndex, oIndex, preds, completed>> /\ pended = {}
    BY <1>3 DEF StopImport, TypeOK
  <2> QED BY <1>1, <2>1 DEF TypeOK, TreesKnown, Covered, Exact, PredOf
<1> QED BY <1>2, <1>3 DEF TypeOK

(* A swept chain keeps what the trees have, and only an unmarked chain is  *)
(* expected to have nothing else.                                          *)
LEMMA QueryKeepsInv ==
    ASSUME Inv, pended = {}, NEW m \in Models, QueryModel(m) \/ QueryModelLimited(m)
    PROVE Inv'
<1> USE DEF Inv
<1>1. UNCHANGED <<sIndex, oIndex, savedPreds, preds, models, flags, buffer, pendedImport, pended, completed>>
  BY DEF QueryModel, QueryModelLimited, trees, session
<1>2. PICK new \in SUBSET chain[m] :
        /\ chain' = [chain EXCEPT ![m] = new]
        /\ {t \in chain[m] : Found(m, t)} \subseteq new
        /\ superset' = superset \/ (superset' = superset \ {m} /\ new = {t \in chain[m] : Found(m, t)})
        /\ m \in superset
  <2>1. CASE QueryModel(m)
    <3>1. {t \in chain[m] : Found(m, t)} \in SUBSET chain[m]
      OBVIOUS
    <3> QED BY <2>1, <3>1 DEF QueryModel
  <2>2. CASE QueryModelLimited(m)
    <3>1. PICK rest \in SUBSET {t \in chain[m] : ~Found(m, t)} :
            chain' = [chain EXCEPT ![m] = {t \in @ : Found(m, t)} \cup rest]
      BY <2>2 DEF QueryModelLimited
    <3>2. {t \in chain[m] : Found(m, t)} \cup rest \in SUBSET chain[m]
      BY <3>1
    <3>3. superset' = superset /\ m \in superset
      BY <2>2 DEF QueryModelLimited
    <3> QED BY <3>1, <3>2, <3>3
  <2> QED BY <2>1, <2>2
<1>3. TypeOK'
  BY <1>1, <1>2 DEF TypeOK
<1>4. TreesKnown'
  BY <1>1 DEF TreesKnown, PredOf
<1>5. Covered'
  <2> SUFFICES ASSUME NEW k \in Models, NEW t \in Triples, <<k, t>> \in sIndex
               PROVE t \in chain'[k]
    BY <1>1 DEF Covered
  <2>1. t \in chain[k]
    BY DEF Covered
  <2>2. CASE k = m
    <3>1. PredOf(<<k, t>>) \in preds
      BY DEF TreesKnown
    <3>2. Found(m, t)
      BY <2>2, <3>1 DEF Found, PredOf
    <3> QED BY <1>2, <2>1, <2>2, <3>2 DEF TypeOK
  <2>3. CASE k # m
    BY <1>2, <2>1, <2>3 DEF TypeOK
  <2> QED BY <2>2, <2>3
<1>6. Exact'
  <2> SUFFICES ASSUME NEW k \in Models \ superset', NEW t \in chain'[k]
               PROVE <<k, t>> \in sIndex
    BY <1>1 DEF Exact
  <2>1. CASE k = m
    <3>1. Found(m, t)
      BY <1>2, <2>1 DEF TypeOK
    <3> QED BY <2>1, <3>1 DEF Found
  <2>2. CASE k # m
    <3>1. k \notin superset /\ t \in chain[k]
      BY <1>2, <2>2 DEF TypeOK
    <3> QED BY <3>1 DEF Exact
  <2> QED BY <2>1, <2>2
<1> QED BY <1>3, <1>4, <1>5, <1>6

(* A deleted quad leaves the chain of its model marked. *)
LEMMA DeleteQuadsKeepsInv ==
    ASSUME Inv, pended = {}, NEW m \in Models \cup {NULL}, NEW t \in Triples, DeleteQuads(m, t)
    PROVE Inv'
<1> USE DEF Inv
<1> DEFINE gone == {q \in Quads : q[2] = t /\ m \in {NULL, q[1]} /\ Pred[t] \in preds}
           reported == {q[1] : q \in gone \cap (sIndex \cup oIndex)}
<1>1. /\ sIndex' = sIndex \ gone /\ oIndex' = oIndex \ gone
      /\ superset' = superset \cup (models \cap (reported \cup {m}))
      /\ completed' = completed \ gone
      /\ UNCHANGED <<savedPreds, preds, models, chain, flags, buffer, pendedImport, pended>>
  BY DEF DeleteQuads, session
<1> HIDE DEF reported
<1>2. TypeOK'
  BY <1>1 DEF TypeOK
<1>3. TreesKnown'
  BY <1>1 DEF TreesKnown, PredOf
<1>4. Covered'
  BY <1>1 DEF Covered
<1>5. Exact'
  <2> SUFFICES ASSUME NEW k \in Models \ superset', NEW u \in chain[k], <<k, u>> \in gone
               PROVE FALSE
    BY <1>1 DEF Exact
  <2>1. <<k, u>> \in sIndex
    BY <1>1 DEF Exact
  <2>2. k \in models
    BY DEF TypeOK
  <2>3. k \in reported
    BY <2>1 DEF reported
  <2> QED BY <1>1, <2>2, <2>3
<1> QED BY <1>2, <1>3, <1>4, <1>5

(* The quads that a deletion of models takes from the subject trees. *)
LEMMA ModelsDeleted ==
    ASSUME Inv, pended = {}, NEW D \in SUBSET Models \ {{}}, DeleteModels(D)
    PROVE /\ sIndex' = {q \in sIndex : q[1] \notin D}
          /\ oIndex' \subseteq oIndex /\ completed' \subseteq completed
          /\ ForgetModels(D)
          /\ UNCHANGED <<savedPreds, preds, flags, buffer, pendedImport, pended>>
<1> USE DEF Inv
<1>1. CASE DeleteModelsByWalk(D)
  <2>1. sIndex' = sIndex \ {q \in sIndex : q[1] \in D /\ PredOf(q) \in preds}
    BY <1>1 DEF DeleteModelsByWalk
  <2>2. sIndex' = {q \in sIndex : q[1] \notin D}
    BY <2>1 DEF TreesKnown
  <2> QED BY <1>1, <2>2 DEF DeleteModelsByWalk, session
<1>2. ASSUME NEW m \in D, D = {m}, DeleteModelBySearch(m)
      PROVE /\ sIndex' = {q \in sIndex : q[1] \notin D}
            /\ oIndex' \subseteq oIndex /\ completed' \subseteq completed
            /\ ForgetModels(D)
            /\ UNCHANGED <<savedPreds, preds, flags, buffer, pendedImport, pended>>
  <2> DEFINE listed == IF m \in superset THEN {t \in chain[m] : Found(m, t)} ELSE chain[m]
             gone == {m} \X {t \in listed : Pred[t] \in preds}
  <2>1. sIndex' = sIndex \ gone /\ oIndex' = oIndex \ gone /\ completed' = completed \ gone
    BY <1>2 DEF DeleteModelBySearch
  <2>2. ASSUME NEW q \in sIndex, q[1] = m PROVE q \in gone
    <3>1. q = <<m, q[2]>> /\ q[2] \in Triples /\ m \in Models
      BY <2>2, QuadParts DEF TypeOK
    <3>2. q[2] \in chain[m] /\ Pred[q[2]] \in preds
      BY <2>2, <3>1 DEF Covered, TreesKnown, PredOf
    <3>3. Found(m, q[2])
      BY <3>1, <3>2 DEF Found
    <3>4. q[2] \in listed
      BY <3>2, <3>3
    <3> HIDE DEF listed
    <3> QED BY <3>1, <3>2, <3>4
  <2>3. \A q \in gone : q[1] = m
    OBVIOUS
  <2> HIDE DEF gone
  <2>4. sIndex' = {q \in sIndex : q[1] \notin D}
    BY <1>2, <2>1, <2>2, <2>3
  <2> QED BY <1>2, <2>1, <2>4 DEF DeleteModelBySearch, session
<1> QED BY <1>1, <1>2 DEF DeleteModels

(* Models go from the trees and from the chains together. *)
LEMMA DeleteModelsKeepsInv ==
    ASSUME Inv, pended = {}, NEW D \in SUBSET Models \ {{}}, DeleteModels(D)
    PROVE Inv'
<1> USE DEF Inv
<1>1. /\ sIndex' = {q \in sIndex : q[1] \notin D}
      /\ oIndex' \subseteq oIndex /\ completed' \subseteq completed
      /\ UNCHANGED <<savedPreds, preds, flags, buffer, pendedImport, pended>>
  BY ModelsDeleted
<1>2. /\ models' = models \ D
      /\ chain' = [m \in Models |-> IF m \in D THEN {} ELSE chain[m]]
      /\ superset' = superset \ D
  BY ModelsDeleted DEF ForgetModels
<1>3. TypeOK'
  BY <1>1, <1>2 DEF TypeOK
<1>4. TreesKnown'
  BY <1>1 DEF TreesKnown, PredOf
<1>5. Covered'
  BY <1>1, <1>2 DEF Covered
<1>6. Exact'
  <2> SUFFICES ASSUME NEW k \in Models \ superset', NEW u \in chain'[k]
               PROVE <<k, u>> \in sIndex'
    BY DEF Exact
  <2>1. k \notin D /\ u \in chain[k] /\ k \notin superset
    BY <1>2
  <2>2. <<k, u>> \in sIndex
    BY <2>1 DEF Exact
  <2> QED BY <1>1, <2>1, <2>2
<1> QED BY <1>3, <1>4, <1>5, <1>6

(* Every step of an undisturbed system keeps the invariant. *)
LEMMA InvInductive ==
    ASSUME Disturbances = {}
    PROVE /\ Init => Inv
          /\ Inv /\ [Next]_vars => Inv'
<1>1. Init => Inv
  BY DEF Init, Inv, TypeOK, TreesKnown, Covered, Exact
<1>2. ASSUME Inv, [Next]_vars PROVE Inv'
  <2> USE <1>2 DEF Inv
  <2>1. pendedImport = 0 => pended = {}
    BY DEF TypeOK
  <2>2. ASSUME NEW q \in Quads, InsertQuad(q) PROVE Inv'
    BY <2>2 DEF InsertQuad, trees, modelIndex, TypeOK, TreesKnown, Covered, Exact, PredOf
  <2>3. ASSUME NEW q \in Quads, InsertQuadFull(q) PROVE Inv'
    <3>1. buffer \cup {q} \in SUBSET Quads
      BY DEF TypeOK
    <3> QED BY <2>3, <3>1, PendedKeepsInv DEF InsertQuadFull
  <2>4. CASE CommitQuad
    BY <2>4, CommitKeepsInv
  <2>5. CASE StopImport
    BY <2>5, StopKeepsInv
  <2>6. ASSUME NEW m \in Models, QueryModel(m) \/ QueryModelLimited(m) PROVE Inv'
    <3>1. pended = {}
      BY <2>1, <2>6 DEF QueryModel, QueryModelLimited, MayOverlap
    <3> QED BY <2>6, <3>1, QueryKeepsInv
  <2>7. ASSUME NEW m \in Models, NewModel(m) PROVE Inv'
    <3>1. m \notin models /\ pended = {}
      BY <2>1, <2>7 DEF NewModel, MayOverlap
    <3>2. /\ models' = models \ {m}
          /\ chain' = [k \in Models |-> IF k \in {m} THEN {} ELSE chain[k]]
          /\ superset' = superset \ {m}
      BY <2>7 DEF NewModel, ForgetModels
    <3>3. models' = models /\ chain' = chain /\ superset' = superset
      BY <3>1, <3>2 DEF TypeOK
    <3> QED BY <2>7, <3>3 DEF NewModel, trees, session, TypeOK, TreesKnown, Covered, Exact, PredOf
  <2>8. ASSUME NEW m \in Models \cup {NULL}, NEW t \in Triples, DeleteQuads(m, t) PROVE Inv'
    <3>1. pended = {}
      BY <2>1, <2>8 DEF DeleteQuads, MayOverlap
    <3> QED BY <2>8, <3>1, DeleteQuadsKeepsInv
  <2>9. ASSUME NEW D \in SUBSET Models \ {{}}, DeleteModels(D) PROVE Inv'
    <3>1. pended = {}
      BY <2>1, <2>9 DEF DeleteModels, DeleteModelsByWalk, DeleteModelBySearch, MayOverlap
    <3> QED BY <2>9, <3>1, DeleteModelsKeepsInv
  <2>10. CASE DeleteAll
    <3>1. pended = {}
      BY <2>1, <2>10 DEF DeleteAll, MayOverlap
    <3>2. sIndex' = {}
      BY <2>10 DEF DeleteAll, TreesKnown
    <3>3. oIndex' \subseteq oIndex
      BY <2>10 DEF DeleteAll
    <3>4. chain' = [m \in Models |-> {}] /\ models' = {} /\ superset' = {}
      BY <2>10 DEF DeleteAll, ForgetModels, TypeOK
    <3>5. /\ savedPreds' = {} /\ preds' = {} /\ flags' = 1 /\ completed' = {}
          /\ UNCHANGED <<buffer, pendedImport, pended>>
      BY <2>10 DEF DeleteAll
    <3> QED BY <3>1, <3>2, <3>3, <3>4, <3>5 DEF TypeOK, TreesKnown, Covered, Exact
  <2>11. CASE Disconnect
    <3>1. pended = {}
      BY <2>1, <2>11 DEF Disconnect, MayDrop
    <3> QED BY <2>11, <3>1 DEF Disconnect, modelIndex, TypeOK, TreesKnown, Covered, Exact, PredOf
  <2>12. CASE Crash
    <3>1. pended = {} /\ preds' = preds
      BY <2>1, <2>12 DEF Crash
    <3> QED BY <2>12, <3>1 DEF Crash, modelIndex, TypeOK, TreesKnown, Covered, Exact, PredOf
  <2>13. CASE UNCHANGED vars
    BY <2>13 DEF vars, trees, modelIndex, session, TypeOK, TreesKnown, Covered, Exact, PredOf
  <2> QED BY <2>2, <2>3, <2>4, <2>5, <2>6, <2>7, <2>8, <2>9, <2>10, <2>11, <2>12, <2>13 DEF Next
<1> QED BY <1>1, <1>2

(* Every quad of the trees is in the chain of its model, so listing or     *)
(* deleting the model by its chain misses none.                            *)
THEOREM ChainsCover ==
    ASSUME Disturbances = {} PROVE Spec => []ChainsCoverTrees
<1>1. Inv => ChainsCoverTrees
  BY QuadParts DEF Inv, TypeOK, Covered, ChainsCoverTrees
<1> QED BY <1>1, InvInductive, PTL DEF Spec

(* When no import is in progress, a chain without the bit has only triples *)
(* of the trees, and a query may return them unchecked.                    *)
THEOREM UnmarkedChainsAreExact ==
    ASSUME Disturbances = {} PROVE Spec => []SupersetBitIsSet
<1>1. Inv => SupersetBitIsSet
  <2> SUFFICES ASSUME Inv, pendedImport = 0, NEW m \in Models \ superset, NEW t \in chain[m]
               PROVE Found(m, t)
    BY DEF SupersetBitIsSet
  <2>1. <<m, t>> \in sIndex
    BY DEF Inv, TypeOK, Exact
  <2>2. PredOf(<<m, t>>) \in preds
    BY <2>1 DEF Inv, TreesKnown
  <2> QED BY <2>1, <2>2 DEF Found, PredOf
<1> QED BY <1>1, InvInductive, PTL DEF Spec

(* The chains of models match the trees in both directions: iteration and  *)
(* deletion by a chain miss no quad of the model, and an unmarked chain    *)
(* offers no other.                                                        *)
THEOREM ChainsMatch ==
    ASSUME Disturbances = {} PROVE Spec => []ChainsMatchTrees
<1>1. ChainsCoverTrees /\ SupersetBitIsSet => ChainsMatchTrees
  BY DEF ChainsMatchTrees
<1> QED BY <1>1, ChainsCover, UnmarkedChainsAreExact, PTL

(* DELETE MODELS leaves no quad of the models in the trees, by the walk    *)
(* and by the shortcut through the chain.                                  *)
THEOREM DeletionIsComplete ==
    ASSUME Disturbances = {} PROVE Spec => DeletedModelsAreGone
<1>1. Inv /\ [Next]_vars =>
        [\A D \in SUBSET Models \ {{}} : DeleteModels(D) => \A q \in Graph' : q[1] \notin D]_vars
  <2> SUFFICES ASSUME Inv, NEW D \in SUBSET Models \ {{}}, DeleteModels(D), NEW q \in Graph'
               PROVE q[1] \notin D
    OBVIOUS
  <2>1. pended = {}
    BY DEF DeleteModels, DeleteModelsByWalk, DeleteModelBySearch, MayOverlap, Inv, TypeOK
  <2>2. sIndex' = {p \in sIndex : p[1] \notin D}
    BY <2>1, ModelsDeleted
  <2> QED BY <2>2 DEF Graph
<1> QED BY <1>1, InvInductive, PTL DEF Spec, DeletedModelsAreGone
-----------------------------------------------------------------------------
(* Every request changes the set of quads as the abstract store allows. *)
LEMMA StepIsAbstract ==
    ASSUME Disturbances = {}, Inv, Inv', [Next]_vars
    PROVE  [Store!Next]_<<Graph, buffer \cup pended>>
<1>1. Graph = sIndex /\ Graph' = sIndex'
  <2>1. \A q \in sIndex : PredOf(q) \in preds
    BY DEF Inv, TreesKnown
  <2>2. \A q \in sIndex' : PredOf(q) \in preds'
    BY DEF Inv, TreesKnown, PredOf
  <2> QED BY <2>1, <2>2 DEF Graph, PredOf
<1>2. Quads = Store!Quads
  BY DEF Quads, Store!Quads
<1>3. pendedImport = 0 => pended = {}
  BY DEF Inv, TypeOK
<1>4. \A Q \in SUBSET Quads : Opened(sIndex, Q) = sIndex
  BY DEF Inv, TreesKnown, Opened
<1> DEFINE Pending == buffer \cup pended
<1>5. ASSUME NEW q \in Quads, InsertQuad(q) PROVE Store!Next
  <2>1. sIndex' = sIndex /\ Pending' = Pending \cup {q}
    BY <1>5 DEF InsertQuad, trees
  <2> QED BY <1>1, <1>2, <2>1 DEF Store!Next, Store!Insert
<1>6. ASSUME NEW q \in Quads, InsertQuadFull(q) PROVE Store!Next
  <2>1. sIndex' = sIndex /\ Pending' = Pending \cup {q}
    BY <1>3, <1>6 DEF InsertQuadFull, CommitPended, Inv, TypeOK
  <2> QED BY <1>1, <1>2, <2>1 DEF Store!Next, Store!Insert
<1>7. CASE CommitQuad
  <2>1. CASE pendedImport = 1
    <3>1. sIndex' = sIndex /\ Pending' = Pending
      BY <1>7, <2>1 DEF CommitQuad, CommitPended
    <3> QED BY <1>1, <3>1
  <2>2. CASE pendedImport # 1
    <3>1. sIndex' = sIndex \cup buffer /\ Pending' = {} /\ Pending = buffer
      BY <1>3, <1>4, <1>7, <2>2 DEF CommitQuad, AddToTrees, Inv, TypeOK
    <3>2. Store!Complete
      BY <1>1, <3>1 DEF Store!Complete
    <3> QED BY <3>2 DEF Store!Next
  <2> QED BY <2>1, <2>2
<1>8. CASE StopImport
  <2>1. CASE pendedImport = 1
    <3>1. sIndex' = sIndex \cup pended /\ Pending' = buffer
      BY <1>4, <1>8, <2>1 DEF StopImport, AddToTrees, Inv, TypeOK
    <3>2. Store!Complete
      BY <1>1, <3>1 DEF Store!Complete
    <3> QED BY <3>2 DEF Store!Next
  <2>2. CASE pendedImport # 1
    <3>1. sIndex' = sIndex /\ Pending' = Pending
      BY <1>3, <1>8, <2>2 DEF StopImport, Inv, TypeOK
    <3> QED BY <1>1, <3>1
  <2> QED BY <2>1, <2>2
<1>9. ASSUME NEW m \in Models, QueryModel(m) \/ QueryModelLimited(m) \/ NewModel(m)
      PROVE  UNCHANGED <<Graph, Pending>>
  <2>1. sIndex' = sIndex /\ Pending' = Pending
    BY <1>9 DEF QueryModel, QueryModelLimited, NewModel, trees, session
  <2> QED BY <1>1, <2>1
<1>10. ASSUME NEW m \in Models \cup {NULL}, NEW t \in Triples, DeleteQuads(m, t) PROVE Store!Next
  <2>1. sIndex' = sIndex \ {q \in Quads : q[2] = t /\ m \in {NULL, q[1]} /\ Pred[t] \in preds}
        /\ Pending' = Pending
    BY <1>10 DEF DeleteQuads, session
  <2>2. \A q \in sIndex : q \in Quads /\ Pred[q[2]] \in preds
    BY DEF Inv, TypeOK, TreesKnown, PredOf
  <2>3. sIndex' = {q \in sIndex : ~(q[2] = t /\ m \in {NULL, q[1]})}
    BY <2>1, <2>2
  <2>4. Store!DeleteQuad(m, t)
    BY <1>1, <2>1, <2>3 DEF Store!DeleteQuad
  <2> QED BY <2>4 DEF Store!Next
<1>11. ASSUME NEW D \in SUBSET Models \ {{}}, DeleteModels(D) PROVE Store!Next
  <2>1. pended = {}
    BY <1>3, <1>11 DEF DeleteModels, DeleteModelsByWalk, DeleteModelBySearch, MayOverlap
  <2>2. sIndex' = {q \in sIndex : q[1] \notin D} /\ Pending' = Pending
    BY <1>11, <2>1, ModelsDeleted
  <2>3. Store!DeleteModels(D)
    BY <1>1, <2>2 DEF Store!DeleteModels
  <2> QED BY <2>3 DEF Store!Next
<1>12. CASE DeleteAll
  <2>1. sIndex' = {} /\ Pending' = Pending
    BY <1>12 DEF DeleteAll, Inv, TreesKnown
  <2> QED BY <1>1, <2>1 DEF Store!Next, Store!DeleteAll
<1>13. CASE Disconnect \/ Crash
  <2>1. sIndex' = sIndex /\ Pending' = {}
    BY <1>13 DEF Disconnect, Crash
  <2> QED BY <1>1, <2>1 DEF Store!Next, Store!Lose
<1>14. CASE UNCHANGED vars
  <2>1. sIndex' = sIndex /\ Pending' = Pending
    BY <1>14 DEF vars, trees, session
  <2> QED BY <1>1, <2>1
<1> QED
  BY <1>5, <1>6, <1>7, <1>8, <1>9, <1>10, <1>11, <1>12, <1>13, <1>14 DEF Next

(* A segment with its three indexes, its buffer and its pended lists       *)
(* implements a set of quads with a queue: INSERT QUAD only queues, COMMIT *)
(* QUAD and STOP IMPORT only move queued quads, the deletions remove what  *)
(* they name, and queries and NEW MODELS change nothing.                   *)
THEOREM SegmentImplementsQuadStore ==
    ASSUME Disturbances = {} PROVE Spec => ImplementsQuadStore
<1>1. Init => Store!Init
  BY DEF Init, Store!Init, Graph
<1>2. Inv /\ Inv' /\ [Next]_vars => [Store!Next]_<<Graph, buffer \cup pended>>
  BY StepIsAbstract
<1> QED
  BY <1>1, <1>2, InvInductive, PTL DEF Spec, ImplementsQuadStore, Store!Spec
=============================================================================
