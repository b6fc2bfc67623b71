--------------------------- MODULE RegistryProofs ----------------------------
(***************************************************************************)
(* Proofs about groups, apps and the rows that refer to them, for any sets *)
(* of ids, names, settings and secrets and any number of API requests.     *)
(***************************************************************************)
EXTENDS Registry, TLAPS

\* The inductive invariant, part by part.

\* Every row that is there had its id handed out.
RowsAreBorn ==
    /\ \A g \in GroupIds : HasGroup(g) => g \in born
    /\ \A a \in AppIds : HasApp(a) => a \in born

\* A PUT holds a row that was there.  The app may be gone by now, or have another
\* name and other settings, but its group is the one the PUT will write back.
HeldAppIsCurrent ==
    \A r \in Requests : rpc[r] = "app" /\ held[r].row # Absent =>
        /\ held[r].id \in born
        /\ HasApp(held[r].id) => app[held[r].id].group = held[r].row.group

RegInv == RegistryTypeOK /\ RowsAreBorn /\ HeldAppIsCurrent /\ NoOrphans

-----------------------------------------------------------------------------
\* What CreateApp inserts is an app of the group.
LEMMA NewAppType ==
    ASSUME NEW g \in GroupIds, NEW n \in Names,
           NEW conf \in [Sides -> Confs], NEW secret \in [Sides -> Secrets]
    PROVE  NewApp(g, n, conf, secret) \in App /\ NewApp(g, n, conf, secret).group = g
<1> DEFINE sd == [s \in Sides |-> [conf |-> conf[s], secret |-> Encrypt(secret[s])]]
<1>1. sd \in [Sides -> Side]
  BY DEF Side, Encrypt
<1> HIDE DEF sd
<1>2. [group |-> g, name |-> n, enabled |-> TRUE, side |-> sd] \in App
  BY <1>1 DEF App
<1> QED
  BY <1>2 DEF NewApp, sd

\* A patched side keeps exactly one encryption around its secret.
LEMMA PatchSideType ==
    ASSUME NEW old \in Side, NEW p \in {Keep} \union [conf : Confs, secret : Secrets]
    PROVE  PatchSide(old, p) \in Side
<1>1. CASE p = Keep
  BY <1>1 DEF PatchSide
<1>2. CASE p # Keep
  <2>1. p.conf \in Confs /\ p.secret \in Secrets
    BY <1>2
  <2>2. (IF p.secret = NoSecret THEN old.secret ELSE Encrypt(p.secret))
          \in {Encrypt(s) : s \in Secrets}
    BY <2>1 DEF Side
  <2> QED
    BY <1>2, <2>1, <2>2 DEF PatchSide, Side
<1> QED
  BY <1>1, <1>2

\* A patched app is an app of the same group.
LEMMA PatchedType ==
    ASSUME NEW old \in App, NEW p \in Patch
    PROVE  Patched(old, p) \in App /\ Patched(old, p).group = old.group
<1> DEFINE n == Given(p.name, old.name)
           e == Given(p.enabled, old.enabled)
           sd == [s \in Sides |-> PatchSide(old.side[s], p.side[s])]
<1>1. n \in Names
  BY DEF Given, Patch, App
<1>2. e \in BOOLEAN
  BY DEF Given, Patch, App
<1>3. sd \in [Sides -> Side]
  <2>1. ASSUME NEW s \in Sides
        PROVE  /\ old.side[s] \in Side
               /\ p.side[s] \in {Keep} \union [conf : Confs, secret : Secrets]
    BY DEF App, Patch
  <2> QED
    BY <2>1, PatchSideType
<1> HIDE DEF n, e, sd
<1>4. [group |-> old.group, name |-> n, enabled |-> e, side |-> sd] \in App
  BY <1>1, <1>2, <1>3 DEF App
<1> QED
  BY <1>4 DEF Patched, n, e, sd

-----------------------------------------------------------------------------
\* The invariant holds of the empty tables.
LEMMA RegInvInit == RegInit => RegInv
<1> SUFFICES ASSUME RegInit PROVE RegInv
  OBVIOUS
<1>1. RegistryTypeOK
  BY DEF RegInit, RegistryTypeOK
<1>2. RowsAreBorn /\ HeldAppIsCurrent /\ NoOrphans
  BY DEF RegInit, RowsAreBorn, HeldAppIsCurrent, NoOrphans, HasGroup, HasApp
<1> QED
  BY <1>1, <1>2 DEF RegInv

\* Steps of a request that leave the tables alone keep the invariant.
LEMMA RegInvReads ==
    ASSUME RegInv, NEW r \in Requests,
           \/ \E g \in GroupIds : UpdateGroupRead(r, g)
           \/ \E a \in AppIds : UpdateAppRead(r, a)
           \/ PutFails(r)
    PROVE  RegInv'
<1> USE DEF RegInv, HasGroup, HasApp
<1>0. UNCHANGED <<group, app, transfer, born>>
  BY DEF UpdateGroupRead, UpdateAppRead, Read, PutFails
<1>1. RowsAreBorn' /\ NoOrphans'
  BY <1>0 DEF RowsAreBorn, NoOrphans
<1>2. ASSUME NEW g \in GroupIds, UpdateGroupRead(r, g)
      PROVE  RegistryTypeOK' /\ HeldAppIsCurrent'
  <2>1. [id |-> g, row |-> group[g]] \in HeldGroup
    BY DEF HeldGroup, RegistryTypeOK
  <2>2. RegistryTypeOK'
    BY <1>2, <2>1 DEF UpdateGroupRead, Read, RegistryTypeOK
  <2>3. HeldAppIsCurrent'
    BY <1>0, <1>2 DEF UpdateGroupRead, Read, RegistryTypeOK, HeldAppIsCurrent
  <2> QED
    BY <2>2, <2>3
<1>3. ASSUME NEW a \in AppIds, UpdateAppRead(r, a)
      PROVE  RegistryTypeOK' /\ HeldAppIsCurrent'
  <2>1. [id |-> a, row |-> app[a]] \in HeldApp
    BY DEF HeldApp, RegistryTypeOK
  <2>2. RegistryTypeOK'
    BY <1>3, <2>1 DEF UpdateAppRead, Read, RegistryTypeOK
  <2>3. /\ rpc'[r] = "app" /\ held'[r].id = a /\ held'[r].row = app[a]
        /\ \A q \in Requests \ {r} : rpc'[q] = rpc[q] /\ held'[q] = held[q]
    BY <1>3 DEF UpdateAppRead, Read, RegistryTypeOK
  <2>4. HeldAppIsCurrent'
    BY <1>0, <2>3 DEF RegistryTypeOK, HeldAppIsCurrent, RowsAreBorn
  <2> QED
    BY <2>2, <2>4
<1>4. ASSUME PutFails(r) PROVE RegistryTypeOK' /\ HeldAppIsCurrent'
  <2>1. RegistryTypeOK'
    BY <1>4 DEF PutFails, Done, RegistryTypeOK
  <2>2. HeldAppIsCurrent'
    BY <1>0, <1>4 DEF PutFails, Done, RegistryTypeOK, HeldAppIsCurrent
  <2> QED
    BY <2>1, <2>2
<1> QED
  BY <1>1, <1>2, <1>3, <1>4

\* So do the three requests that write the groups table.
LEMMA RegInvGroups ==
    ASSUME RegInv, NEW r \in Requests,
           \/ \E g \in GroupIds : CreateGroup(r, g) \/ DeleteGroup(r, g)
           \/ UpdateGroupWrite(r)
    PROVE  RegInv'
<1> USE AbsentFresh DEF RegInv, HasGroup, HasApp
<1>1. ASSUME NEW g \in GroupIds, CreateGroup(r, g) PROVE RegInv'
  <2>1. PICK n \in Names : group' = [group EXCEPT ![g] = [name |-> n]]
    BY <1>1 DEF CreateGroup
  <2>2. [name |-> n] \in Group
    BY DEF Group
  <2>3. RegistryTypeOK'
    BY <1>1, <2>1, <2>2 DEF CreateGroup, OneStep, RegistryTypeOK
  <2>4. RowsAreBorn' /\ NoOrphans'
    BY <1>1, <2>1, <2>2 DEF CreateGroup, OneStep, RegistryTypeOK, RowsAreBorn, NoOrphans
  <2>5. HeldAppIsCurrent'
    BY <1>1 DEF CreateGroup, OneStep, HeldAppIsCurrent
  <2> QED
    BY <2>3, <2>4, <2>5
<1>2. ASSUME NEW g \in GroupIds, DeleteGroup(r, g) PROVE RegInv'
  <2>1. /\ group' = [group EXCEPT ![g] = Absent]
        /\ app' = [a \in AppIds |-> IF a \in AppsOf(g) THEN Absent ELSE app[a]]
        /\ \A a \in AppsOf(g) : Unreferenced(a)
        /\ UNCHANGED <<transfer, born, rpc, held>>
    BY <1>2 DEF DeleteGroup, OneStep
  <2>2. RegistryTypeOK'
    BY <2>1 DEF RegistryTypeOK
  <2>3. RowsAreBorn'
    BY <2>1 DEF RegistryTypeOK, RowsAreBorn
  <2>4. HeldAppIsCurrent'
    <3>1. \A a \in AppIds : app'[a] # Absent => app'[a] = app[a]
      BY <2>1
    <3>2. \A q \in Requests : rpc[q] = "app" => held[q].id \in AppIds
      BY DEF RegistryTypeOK, HeldApp
    <3> QED
      BY <2>1, <3>1, <3>2 DEF HeldAppIsCurrent
  <2>5. NoOrphans'
    <3>1. ASSUME NEW a \in AppIds, app'[a] # Absent PROVE group'[app'[a].group] # Absent
      <4>1. a \notin AppsOf(g) /\ app'[a] = app[a]
        BY <2>1, <3>1
      <4>2. app[a] \in App /\ app[a].group # g /\ group[app[a].group] # Absent
        BY <3>1, <4>1 DEF AppsOf, RegistryTypeOK, NoOrphans
      <4>3. app[a].group \in GroupIds
        BY <4>2 DEF App
      <4> QED
        BY <2>1, <4>1, <4>2, <4>3 DEF RegistryTypeOK
    <3>2. ASSUME NEW t \in TransferIds, transfer[t] # Absent PROVE app'[transfer[t].app] # Absent
      <4>1. transfer[t].app \in AppIds /\ app[transfer[t].app] # Absent
        BY <3>2 DEF RegistryTypeOK, NoOrphans, Row
      <4>2. ~Unreferenced(transfer[t].app)
        BY <3>2, <4>1 DEF Unreferenced, RowsOf
      <4> QED
        BY <2>1, <4>1, <4>2
    <3> QED
      BY <2>1, <3>1, <3>2 DEF NoOrphans
  <2> QED
    BY <2>2, <2>3, <2>4, <2>5
<1>3. ASSUME UpdateGroupWrite(r) PROVE RegInv'
  <2>1. PICK n \in Names \union {Keep} :
          UpdateGroupRow(held[r].id, [name |-> Given(n, held[r].row.name)])
    BY <1>3 DEF UpdateGroupWrite
  <2> DEFINE new == [name |-> Given(n, held[r].row.name)]
  <2>2. held[r].id \in GroupIds /\ held[r].row \in Group
    <3>1. rpc[r] = "group" /\ held[r].row # Absent
      BY <1>3 DEF UpdateGroupWrite
    <3>2. held[r] \in HeldGroup
      BY <3>1 DEF RegistryTypeOK
    <3> QED
      BY <3>1, <3>2 DEF HeldGroup
  <2>3. new \in Group
    BY <2>2 DEF Given, Group
  <2>4. /\ group' \in [GroupIds -> Group \union {Absent}]
        /\ \A g \in GroupIds : group'[g] # Absent <=> group[g] # Absent
    BY <2>1, <2>2, <2>3 DEF UpdateGroupRow, RegistryTypeOK
  <2>5. /\ rpc' = [rpc EXCEPT ![r] = "free"] /\ held' = [held EXCEPT ![r] = Absent]
        /\ UNCHANGED <<app, transfer, born>>
    BY <1>3 DEF UpdateGroupWrite, Done
  <2>6. RegistryTypeOK'
    BY <2>4, <2>5 DEF RegistryTypeOK
  <2>7. RowsAreBorn'
    BY <2>4, <2>5 DEF RowsAreBorn
  <2>8. NoOrphans'
    <3>1. ASSUME NEW a \in AppIds, app[a] # Absent PROVE app[a].group \in GroupIds
      BY <3>1 DEF RegistryTypeOK, App
    <3> QED
      BY <2>4, <2>5, <3>1 DEF NoOrphans
  <2>9. HeldAppIsCurrent'
    BY <2>5 DEF HeldAppIsCurrent, RegistryTypeOK
  <2> QED
    BY <2>6, <2>7, <2>8, <2>9
<1> QED
  BY <1>1, <1>2, <1>3

\* The three requests that write the apps table.
LEMMA RegInvApps ==
    ASSUME RegInv, NEW r \in Requests,
           \/ \E a \in AppIds : DeleteApp(r, a) \/ \E g \in GroupIds : CreateApp(r, a, g)
           \/ UpdateAppWrite(r)
    PROVE  RegInv'
<1> USE AbsentFresh DEF RegInv, HasGroup, HasApp
<1>0. \A q \in Requests : rpc[q] = "app" => held[q].id \in AppIds
  BY DEF RegistryTypeOK, HeldApp
<1>1. ASSUME NEW a \in AppIds, NEW g \in GroupIds, CreateApp(r, a, g) PROVE RegInv'
  <2>1. PICK n \in Names, conf \in [Sides -> Confs], secret \in [Sides -> Secrets] :
          app' = [app EXCEPT ![a] = NewApp(g, n, conf, secret)]
    BY <1>1 DEF CreateApp
  <2> DEFINE new == NewApp(g, n, conf, secret)
  <2>2. new \in App /\ new.group = g
    BY NewAppType
  <2> HIDE DEF new
  <2>3. /\ app'[a] = new /\ \A b \in AppIds \ {a} : app'[b] = app[b]
        /\ app' \in [AppIds -> App \union {Absent}]
    BY <2>1, <2>2 DEF RegistryTypeOK, new
  <2>4. /\ UNCHANGED <<group, transfer, rpc, held>> /\ born' = born \union {a}
        /\ a \notin born /\ group[g] # Absent
    BY <1>1 DEF CreateApp, OneStep
  <2>5. RegistryTypeOK'
    BY <2>3, <2>4 DEF RegistryTypeOK
  <2>6. RowsAreBorn'
    BY <2>3, <2>4 DEF RowsAreBorn
  <2>7. HeldAppIsCurrent'
    BY <1>0, <2>3, <2>4 DEF HeldAppIsCurrent
  <2>8. NoOrphans'
    <3>1. ASSUME NEW t \in TransferIds, transfer[t] # Absent
          PROVE  transfer[t].app \in AppIds
      BY <3>1 DEF RegistryTypeOK, Row
    <3> QED
      BY <2>2, <2>3, <2>4, <3>1 DEF NoOrphans
  <2> QED
    BY <2>5, <2>6, <2>7, <2>8
<1>2. ASSUME NEW a \in AppIds, DeleteApp(r, a) PROVE RegInv'
  <2>1. /\ app' = [app EXCEPT ![a] = Absent] /\ Unreferenced(a)
        /\ UNCHANGED <<group, transfer, born, rpc, held>>
    BY <1>2 DEF DeleteApp, OneStep
  <2>2. RegistryTypeOK'
    BY <2>1 DEF RegistryTypeOK
  <2>3. \A b \in AppIds : app'[b] # Absent => b # a /\ app'[b] = app[b]
    BY <2>1 DEF RegistryTypeOK
  <2>4. RowsAreBorn'
    BY <2>1, <2>3 DEF RowsAreBorn
  <2>5. HeldAppIsCurrent'
    BY <1>0, <2>1, <2>3 DEF HeldAppIsCurrent
  <2>6. NoOrphans'
    <3>1. ASSUME NEW t \in TransferIds, transfer[t] # Absent
          PROVE  app'[transfer[t].app] # Absent
      <4>1. transfer[t].app \in AppIds /\ app[transfer[t].app] # Absent
        BY <3>1 DEF RegistryTypeOK, NoOrphans, Row
      <4>2. transfer[t].app # a
        BY <2>1, <3>1 DEF Unreferenced, RowsOf
      <4> QED
        BY <2>1, <4>1, <4>2 DEF RegistryTypeOK
    <3> QED
      BY <2>1, <2>3, <3>1 DEF NoOrphans
  <2> QED
    BY <2>2, <2>4, <2>5, <2>6
<1>3. ASSUME UpdateAppWrite(r) PROVE RegInv'
  <2>1. PICK p \in Patch : UpdateAppRow(held[r].id, Patched(held[r].row, p))
    BY <1>3 DEF UpdateAppWrite
  <2> DEFINE a == held[r].id
             new == Patched(held[r].row, p)
  <2>2. a \in AppIds /\ held[r].row \in App /\ held[r].row # Absent /\ rpc[r] = "app"
    BY <1>3 DEF UpdateAppWrite, RegistryTypeOK, HeldApp
  <2>3. new \in App /\ new.group = held[r].row.group
    BY <2>2, PatchedType
  <2>4. app' = IF app[a] # Absent THEN [app EXCEPT ![a] = new] ELSE app
    BY <2>1 DEF UpdateAppRow
  <2>5. app[a] # Absent => app[a].group = new.group
    BY <2>2, <2>3 DEF HeldAppIsCurrent
  <2> HIDE DEF a, new
  <2>6. /\ app' \in [AppIds -> App \union {Absent}]
        /\ \A b \in AppIds : /\ app'[b] # Absent <=> app[b] # Absent
                             /\ app[b] # Absent => app'[b].group = app[b].group
    BY <2>2, <2>3, <2>4, <2>5 DEF RegistryTypeOK
  <2>7. /\ rpc' = [rpc EXCEPT ![r] = "free"] /\ held' = [held EXCEPT ![r] = Absent]
        /\ UNCHANGED <<group, transfer, born>>
    BY <1>3 DEF UpdateAppWrite, Done
  <2>8. RegistryTypeOK'
    BY <2>6, <2>7 DEF RegistryTypeOK
  <2>9. RowsAreBorn'
    BY <2>6, <2>7 DEF RowsAreBorn
  <2>10. HeldAppIsCurrent'
    <3>1. \A q \in Requests : rpc'[q] = "app" => rpc[q] = "app" /\ held'[q] = held[q]
      BY <2>7 DEF RegistryTypeOK
    <3> QED
      BY <1>0, <2>6, <2>7, <3>1 DEF HeldAppIsCurrent
  <2>11. NoOrphans'
    <3>1. ASSUME NEW t \in TransferIds, transfer[t] # Absent
          PROVE  transfer[t].app \in AppIds
      BY <3>1 DEF RegistryTypeOK, Row
    <3> QED
      BY <2>6, <2>7, <3>1 DEF NoOrphans
  <2> QED
    BY <2>8, <2>9, <2>10, <2>11
<1> QED
  BY <1>1, <1>2, <1>3

\* The rows of the webhook handler and of the workers.
LEMMA RegInvTransfers ==
    ASSUME RegInv, NEW t \in TransferIds,
           FinishTransfer(t) \/ \E a \in AppIds : CreateTransfer(t, a)
    PROVE  RegInv'
<1> USE DEF RegInv, HasGroup, HasApp
<1>1. UNCHANGED <<group, app, born, rpc, held>>
  BY DEF FinishTransfer, CreateTransfer
<1>2. PICK new \in Row : /\ app[new.app] # Absent
                         /\ transfer' = [transfer EXCEPT ![t] = new]
  <2>1. CASE FinishTransfer(t)
    <3> DEFINE new == [transfer[t] EXCEPT !.active = FALSE]
    <3>1. transfer[t] \in Row /\ transfer[t] # Absent
      BY <2>1 DEF FinishTransfer, RegistryTypeOK
    <3>2. new \in Row /\ new.app = transfer[t].app
      BY <3>1 DEF Row
    <3>3. transfer' = [transfer EXCEPT ![t] = new]
      BY <2>1 DEF FinishTransfer, RegistryTypeOK
    <3>4. app[transfer[t].app] # Absent
      BY <3>1 DEF NoOrphans
    <3> QED
      BY <3>2, <3>3, <3>4
  <2>2. CASE \E a \in AppIds : CreateTransfer(t, a)
    <3>1. PICK a \in AppIds : CreateTransfer(t, a)
      BY <2>2
    <3>2. [app |-> a, active |-> TRUE] \in Row
      BY DEF Row
    <3> QED
      BY <3>1, <3>2 DEF CreateTransfer
  <2> QED
    BY <2>1, <2>2
<1>4. RegistryTypeOK'
  BY <1>1, <1>2 DEF RegistryTypeOK
<1>5. NoOrphans'
  BY <1>1, <1>2 DEF RegistryTypeOK, NoOrphans
<1>6. RowsAreBorn' /\ HeldAppIsCurrent'
  BY <1>1 DEF RowsAreBorn, HeldAppIsCurrent
<1> QED
  BY <1>4, <1>5, <1>6

\* Every step of the API, of a webhook's INSERT and of a worker keeps it.
LEMMA RegInvNext == RegInv /\ [RegNext]_regVars => RegInv'
<1> SUFFICES ASSUME RegInv, [RegNext]_regVars PROVE RegInv'
  OBVIOUS
<1>1. CASE UNCHANGED regVars
  BY <1>1 DEF regVars, RegInv, RegistryTypeOK, RowsAreBorn, HeldAppIsCurrent, NoOrphans,
     HasGroup, HasApp
<1>2. ASSUME NEW r \in Requests, ApiStep(r) PROVE RegInv'
  BY <1>2, RegInvReads, RegInvGroups, RegInvApps DEF ApiStep
<1> QED
  BY <1>1, <1>2, RegInvTransfers DEF RegNext

\* The invariant holds of every state of the tables and of the requests.
LEMMA RegInvHolds == RegSpec => []RegInv
  BY RegInvInit, RegInvNext, PTL DEF RegSpec

\* Type correctness; and a stored secret is always exactly one encryption of a key
\* somebody entered, whatever PUTs were interleaved.
THEOREM RegistryTypeCorrect == RegSpec => []RegistryTypeOK
<1>1. RegInv => RegistryTypeOK
  BY DEF RegInv
<1> QED
  BY <1>1, RegInvHolds, PTL

\* Referential integrity: no app without its group, no transfer without its app,
\* whatever is deleted between the reading and the writing of a PUT.
THEOREM RegistryNoOrphans == RegSpec => []NoOrphans
<1>1. RegInv => NoOrphans
  BY DEF RegInv
<1> QED
  BY <1>1, RegInvHolds, PTL

\* A row whose id was used never appears again once it is deleted.
THEOREM RegistryDeletedStaysDeleted == RegSpec => DeletedStaysDeleted
<1> DEFINE Stays ==
      /\ \A g \in born \intersect GroupIds : group[g] = Absent => group'[g] = Absent
      /\ \A a \in born \intersect AppIds : app[a] = Absent => app'[a] = Absent
<1>1. RegInv /\ [RegNext]_regVars => [Stays]_regVars
  <2> SUFFICES ASSUME RegInv, RegNext PROVE Stays
    OBVIOUS
  <2> USE DEF RegInv
  <2>1. ASSUME NEW r \in Requests,
               \/ \E g \in GroupIds : UpdateGroupRead(r, g)
               \/ \E a \in AppIds : UpdateAppRead(r, a)
               \/ PutFails(r)
        PROVE  Stays
    BY <2>1 DEF UpdateGroupRead, UpdateAppRead, PutFails, Read
  <2>2. ASSUME NEW r \in Requests, NEW g \in GroupIds, CreateGroup(r, g) PROVE Stays
    BY <2>2 DEF CreateGroup, RegistryTypeOK
  <2>3. ASSUME NEW r \in Requests, NEW g \in GroupIds, DeleteGroup(r, g) PROVE Stays
    BY <2>3 DEF DeleteGroup, RegistryTypeOK
  <2>4. ASSUME NEW r \in Requests, UpdateGroupWrite(r) PROVE Stays
    BY <2>4 DEF UpdateGroupWrite, UpdateGroupRow, HasGroup, RegistryTypeOK
  <2>5. ASSUME NEW r \in Requests, NEW a \in AppIds, NEW g \in GroupIds, CreateApp(r, a, g)
        PROVE  Stays
    BY <2>5 DEF CreateApp, RegistryTypeOK
  <2>6. ASSUME NEW r \in Requests, NEW a \in AppIds, DeleteApp(r, a) PROVE Stays
    BY <2>6 DEF DeleteApp, RegistryTypeOK
  <2>7. ASSUME NEW r \in Requests, UpdateAppWrite(r) PROVE Stays
    BY <2>7 DEF UpdateAppWrite, UpdateAppRow, HasApp, RegistryTypeOK
  <2>8. ASSUME NEW t \in TransferIds,
               FinishTransfer(t) \/ \E a \in AppIds : CreateTransfer(t, a)
        PROVE  Stays
    BY <2>8 DEF FinishTransfer, CreateTransfer
  <2> QED
    BY <2>1, <2>2, <2>3, <2>4, <2>5, <2>6, <2>7, <2>8 DEF RegNext, ApiStep
<1> QED
  BY <1>1, RegInvHolds, PTL DEF RegSpec, DeletedStaysDeleted
=============================================================================
