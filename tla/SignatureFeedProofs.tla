------------------------ MODULE SignatureFeedProofs ------------------------
(***************************************************************************)
(* Delta synchronisation loses nothing but late and torn rows, for any     *)
(* number of overlapping writers and synchronisations, with lost answers   *)
(* and kills.                                                              *)
(***************************************************************************)
EXTENDS SignatureFeed, TLAPS

Excused == late \cup torn

Covered(v) ==
  \A i \in Indicators \ Excused :
    addedAt[i] # 0 /\ addedAt[i] <= v => local[i] # 0

(* Between the two reads there is no bound: a row inserted now is torn, so *)
(* whatever version the second read finds, every other row is in the base  *)
(* or in the answer.                                                       *)
AllWith(s) ==
  \A i \in Indicators \ Excused :
    addedAt[i] # 0 => local[i] # 0 \/ delta[s][i] # 0

CoveredWith(s, v) ==
  \A i \in Indicators \ Excused :
    addedAt[i] # 0 /\ addedAt[i] <= v => local[i] # 0 \/ delta[s][i] # 0

(* The server's side: the clock bounds every time read from it, and the    *)
(* highest version bounds the present one, which may have been set back.   *)
ServerInv ==
  /\ version <= announced /\ announced <= clock
  /\ \A w \in Writers : stamp[w] <= clock

(* The agent's side: each version it has, or is about to have, is covered  *)
(* by its rows, together with those of the answer that is on its way.  All *)
(* of them are announced, so a row that is inserted later with a time that *)
(* one of them has reached is late.                                        *)
AgentInv ==
  /\ Covered(localVersion) /\ Covered(savedVersion)
  /\ \A s \in Syncs :
       /\ since[s] <= announced
       /\ spc[s] = "entries" => Covered(since[s])
       /\ spc[s] = "version" => AllWith(s)
       /\ spc[s] = "apply" => CoveredWith(s, newVersion[s])
       /\ spc[s] = "store" => Covered(newVersion[s])

FeedInv == TypeOK /\ ServerInv /\ NeverAhead /\ AgentInv

(* An empty base and an agent at version 0.                              *)
LEMMA FeedInit == Init => FeedInv
  BY SignatureFeedAssumption
  DEF Init, FeedInv, TypeOK, Rows, NoRows, ServerInv, NeverAhead, AgentInv, Covered

(* Every step of a writer and of a synchronisation keeps the versions    *)
(* covered.                                                              *)
LEMMA FeedNext ==
  ASSUME FeedInv, [Next]_vars
  PROVE  FeedInv'
<1> USE SignatureFeedAssumption
    DEF FeedInv, TypeOK, Rows, NoRows, ServerInv, NeverAhead, AgentInv, Covered,
        AllWith, CoveredWith, Excused, serverVars, writerVars, agentVars, syncVars,
        observerVars, WriterAt, SyncAt, Fault
<1>1. CASE UNCHANGED vars
  BY <1>1 DEF vars
<1>2. CASE Tick
  BY <1>2 DEF Tick
<1>3. ASSUME NEW w \in Writers, NEW S \in SUBSET Indicators, BeginWrite(w, S)
      PROVE  FeedInv'
  BY <1>3 DEF BeginWrite
<1>4. ASSUME NEW w \in Writers, InsertRows(w) PROVE FeedInv'
  BY <1>4 DEF InsertRows
<1>5. ASSUME NEW w \in Writers, StampVersion(w) PROVE FeedInv'
  BY <1>5 DEF StampVersion
<1>6. ASSUME NEW w \in Writers, WriteVersion(w) PROVE FeedInv'
  BY <1>6 DEF WriteVersion
<1>7. ASSUME NEW w \in Writers, WriterDies(w) PROVE FeedInv'
  BY <1>7 DEF WriterDies
<1>8. ASSUME NEW s \in Syncs, AskVersion(s) PROVE FeedInv'
  BY <1>8 DEF AskVersion
<1>9. ASSUME NEW s \in Syncs, UpToDate(s) PROVE FeedInv'
  BY <1>9 DEF UpToDate
<1>10. ASSUME NEW s \in Syncs, AskUpdates(s) PROVE FeedInv'
  BY <1>10 DEF AskUpdates
<1>11. ASSUME NEW s \in Syncs, ReadEntries(s) PROVE FeedInv'
  BY <1>11 DEF ReadEntries
<1>12. ASSUME NEW s \in Syncs, ReadVersion(s) PROVE FeedInv'
  BY <1>12 DEF ReadVersion
<1>13. ASSUME NEW s \in Syncs, ApplyDelta(s) PROVE FeedInv'
  BY <1>13 DEF ApplyDelta
<1>14. ASSUME NEW s \in Syncs, StoreVersion(s) PROVE FeedInv'
  BY <1>14 DEF StoreVersion
<1>15. ASSUME NEW s \in Syncs, SyncFails(s) PROVE FeedInv'
  BY <1>15 DEF SyncFails
<1>16. CASE SavePrefs
  BY <1>16 DEF SavePrefs
<1>17. CASE AgentKilled
  BY <1>17 DEF AgentKilled
<1> HIDE DEF FeedInv
<1>18. QED
  BY <1>1, <1>2, <1>3, <1>4, <1>5, <1>6, <1>7, <1>8, <1>9, <1>10, <1>11,
     <1>12, <1>13, <1>14, <1>15, <1>16, <1>17 DEF Next, Write, Sync

(* An agent at version v has every row up to v, whatever answers are lost, *)
(* synchronisations overlap or kills happen between its two writes.        *)
THEOREM Complete == Spec => []NothingSkipped
<1>1. FeedInv /\ [Next]_vars => FeedInv'
  BY FeedNext
<1>2. FeedInv => NothingSkipped
  BY DEF FeedInv, NeverAhead, AgentInv, Covered, Excused, NothingSkipped
<1>3. QED
  BY FeedInit, <1>1, <1>2, PTL DEF Spec

(* Every variable of the server, the writers and the agent keeps its type. *)
THEOREM FeedTyped == Spec => []TypeOK
<1>1. FeedInv /\ [Next]_vars => FeedInv'
  BY FeedNext
<1>2. FeedInv => TypeOK
  BY DEF FeedInv
<1>3. QED
  BY FeedInit, <1>1, <1>2, PTL DEF Spec
-----------------------------------------------------------------------------
(* The refinement to ListReplica.  An answer, however old, has only rows   *)
(* that are in the base, and a row that is inserted has a time.            *)
ReplicaInv ==
  /\ TypeOK
  /\ \A w \in Writers : wpc[w] = "insert" => stamp[w] # 0
  /\ \A s \in Syncs, i \in Indicators : delta[s][i] # 0 => addedAt[i] # 0

LEMMA ReplicaInvInit == Init => ReplicaInv
  BY FeedInit DEF FeedInv, Init, NoRows, ReplicaInv

LEMMA ReplicaInvNext == FeedInv /\ ReplicaInv /\ [Next]_vars => ReplicaInv'
<1> SUFFICES ASSUME FeedInv, ReplicaInv, [Next]_vars PROVE ReplicaInv'
  OBVIOUS
<1> DEFINE Stamped == \A w \in Writers : wpc[w] = "insert" => stamp[w] # 0
           Based == \A s \in Syncs, i \in Indicators : delta[s][i] # 0 => addedAt[i] # 0
<1>0. TypeOK' /\ TypeOK /\ Stamped /\ Based
  BY FeedNext DEF FeedInv, ReplicaInv
<1> USE DEF TypeOK, Rows, NoRows, serverVars, writerVars, syncVars, WriterAt
<1>1. ASSUME NEW w \in Writers, NEW S \in SUBSET Indicators, BeginWrite(w, S)
      PROVE  (Stamped /\ Based)'
  BY <1>0, <1>1 DEF BeginWrite
<1>2. ASSUME NEW w \in Writers, InsertRows(w) PROVE (Stamped /\ Based)'
  BY <1>0, <1>2 DEF InsertRows
<1>3. ASSUME NEW w \in Writers, StampVersion(w) \/ WriteVersion(w) \/ WriterDies(w)
      PROVE  (Stamped /\ Based)'
  BY <1>0, <1>3 DEF StampVersion, WriteVersion, WriterDies
<1>4. ASSUME NEW s \in Syncs, AskVersion(s) \/ UpToDate(s) \/ AskUpdates(s)
                              \/ ReadVersion(s) \/ ApplyDelta(s)
      PROVE  (Stamped /\ Based)'
  BY <1>0, <1>4 DEF AskVersion, UpToDate, AskUpdates, ReadVersion, ApplyDelta
<1>5. ASSUME NEW s \in Syncs, ReadEntries(s) PROVE (Stamped /\ Based)'
  BY <1>0, <1>5 DEF ReadEntries
<1>6. ASSUME NEW s \in Syncs, StoreVersion(s) \/ SyncFails(s) PROVE (Stamped /\ Based)'
  <2>1. delta' = [delta EXCEPT ![s] = NoRows] /\ UNCHANGED <<addedAt, wpc, stamp>>
    BY <1>6 DEF StoreVersion, SyncFails
  <2>2. QED
    BY <1>0, <2>1
<1>7. ASSUME Tick \/ SavePrefs \/ AgentKilled \/ UNCHANGED vars PROVE (Stamped /\ Based)'
  BY <1>0, <1>7 DEF Tick, SavePrefs, AgentKilled, vars
<1>8. (Stamped /\ Based)'
  BY <1>1, <1>2, <1>3, <1>4, <1>5, <1>6, <1>7 DEF Next, Write, Sync
<1>9. QED
  BY <1>0, <1>8 DEF ReplicaInv

LEMMA ReplicaInit == Init => Replica!Init
  BY DEF Init, NoRows, Replica!Init

(* Inserting publishes, applying a delta copies, and nothing else touches  *)
(* either table.                                                           *)
LEMMA ReplicaNext == ReplicaInv /\ [Next]_vars => [Replica!Next]_(Replica!vars)
<1> SUFFICES ASSUME ReplicaInv, [Next]_vars
             PROVE  Replica!Next \/ UNCHANGED Replica!vars
  OBVIOUS
<1>0. ASSUME UNCHANGED <<addedAt, local>> PROVE UNCHANGED Replica!vars
  BY <1>0 DEF Replica!vars
<1>1. ASSUME NEW w \in Writers, InsertRows(w) PROVE Replica!Next
  <2>1. PICK K \in SUBSET Indicators : K = rows[w]
    BY DEF ReplicaInv, TypeOK
  <2>2. stamp[w] # 0
    BY <1>1 DEF InsertRows, ReplicaInv
  <2>3. \A i \in Indicators : addedAt'[i] # 0 <=> addedAt[i] # 0 \/ i \in K
    BY <1>1, <2>1, <2>2 DEF InsertRows
  <2>4. local' = local
    BY <1>1 DEF InsertRows, agentVars
  <2>5. Replica!Publish(K)
    BY <2>3, <2>4 DEF Replica!Publish
  <2>6. QED
    BY <2>5 DEF Replica!Next
<1>2. ASSUME NEW s \in Syncs, ApplyDelta(s) PROVE Replica!Next
  <2>1. PICK K \in SUBSET Indicators : K = {i \in Indicators : delta[s][i] # 0}
    OBVIOUS
  <2>2. \A i \in Indicators : local'[i] # 0 <=> local[i] # 0 \/ i \in K
    BY <1>2, <2>1 DEF ApplyDelta
  <2>3. K \subseteq {i \in Indicators : addedAt[i] # 0}
    BY <2>1 DEF ReplicaInv
  <2>4. addedAt' = addedAt
    BY <1>2 DEF ApplyDelta, serverVars
  <2>5. Replica!Copy(K)
    BY <2>2, <2>3, <2>4 DEF Replica!Copy
  <2>6. QED
    BY <2>5 DEF Replica!Next
<1>3. ASSUME NEW w \in Writers, NEW S \in SUBSET Indicators, BeginWrite(w, S)
      PROVE  UNCHANGED Replica!vars
  BY <1>0, <1>3 DEF BeginWrite, serverVars, agentVars
<1>4. ASSUME NEW w \in Writers, StampVersion(w) \/ WriteVersion(w) \/ WriterDies(w)
      PROVE  UNCHANGED Replica!vars
  BY <1>0, <1>4 DEF StampVersion, WriteVersion, WriterDies, serverVars, agentVars
<1>5. ASSUME NEW s \in Syncs,
             \/ AskVersion(s) \/ UpToDate(s) \/ AskUpdates(s) \/ ReadEntries(s)
             \/ ReadVersion(s) \/ StoreVersion(s) \/ SyncFails(s)
      PROVE  UNCHANGED Replica!vars
  BY <1>0, <1>5 DEF AskVersion, UpToDate, AskUpdates, ReadEntries, ReadVersion,
                    StoreVersion, SyncFails, serverVars, agentVars
<1>6. ASSUME Tick \/ SavePrefs \/ AgentKilled \/ UNCHANGED vars
      PROVE  UNCHANGED Replica!vars
  BY <1>0, <1>6 DEF Tick, SavePrefs, AgentKilled, vars, serverVars, agentVars
<1>7. QED
  BY <1>1, <1>2, <1>3, <1>4, <1>5, <1>6 DEF Next, Write, Sync

(* The agent's table grows by published rows only, whatever writers,       *)
(* synchronisations and kills do: what Verdicts takes for granted.         *)
THEOREM ReplicaImplemented == Spec => ImplementsReplica
<1>1. FeedInv /\ [Next]_vars => FeedInv'
  BY FeedNext
<1>2. Spec => Replica!Init /\ [][Replica!Next]_(Replica!vars)
  BY FeedInit, <1>1, ReplicaInvInit, ReplicaInvNext, ReplicaInit, ReplicaNext, PTL
  DEF Spec
<1>3. QED
  BY <1>2 DEF ImplementsReplica, Replica!Spec
=============================================================================
