------------------------------ MODULE Registry ------------------------------
(***************************************************************************)
(* Groups, apps and the rows that refer to them: the REST handlers of      *)
(* internal/dashboard/api.go and group/group_service.go over the tables of *)
(* internal/storage (store.go, 001_initial_schema.sql).                    *)
(*                                                                         *)
(* An SQL statement is one step.  A PUT reads the row, then reads its body *)
(* from the network, then writes the whole row back: two steps, between    *)
(* which other requests run.  Descriptions, times and the retry settings   *)
(* are plain fields that are treated like "enabled" and are left out, as   *)
(* are requests that only read and the events for the dashboard.           *)
(***************************************************************************)
EXTENDS Naturals, FiniteSets

CONSTANTS
    GroupIds, AppIds, TransferIds,
    Names, NoName,       \* NoName is the empty string
    Sides,               \* MinIOConfig of an app: "src" and "dst"
    Confs,               \* endpoint, access key, bucket, region and TLS flags
    Secrets, NoSecret,   \* secret keys; NoSecret is the empty string
    Requests,            \* API request goroutines
    Keep,                \* a field that is not in the body
    Absent               \* no such row

ASSUME EmptyStrings == NoName \in Names /\ NoSecret \in Secrets

VARIABLES
    group, app, transfer,  \* the tables, Absent where there is no row
    born,                  \* the uuids handed out so far
    rpc, held              \* each request's position, the row it has read

regVars == <<group, app, transfer, born, rpc, held>>

-----------------------------------------------------------------------------
\* Rows

\* EncryptSecret and DecryptSecret: AES-GCM under the service's key; only the one
\* undoes the other.
Encrypt(s) == [sealed |-> s]
Decrypt(c) == c.sealed

Side  == [conf : Confs, secret : {Encrypt(s) : s \in Secrets}]
Group == [name : Names]
App   == [group : GroupIds, name : Names, enabled : BOOLEAN, side : [Sides -> Side]]
Row   == [app : AppIds, active : BOOLEAN]

ASSUME AbsentFresh == Absent \notin Group \union App \union Row

HasGroup(g) == group[g] # Absent
HasApp(a)   == app[a] # Absent
AppsOf(g)   == {a \in AppIds : HasApp(a) /\ app[a].group = g}
RowsOf(a)   == {t \in TransferIds : transfer[t] # Absent /\ transfer[t].app = a}

\* The UNIQUE constraints: groups(name), apps(group_id, name).
GroupNameFree(g, n) ==
    \A h \in GroupIds \ {g} : HasGroup(h) => group[h].name # n

AppNameFree(a, g, n) == \A b \in AppsOf(g) \ {a} : app[b].name # n

\* Variant: only active transfers restrict.
NoActiveRows(a) == \A t \in RowsOf(a) : ~transfer[t].active

\* The reference of transfers(app_id) has no ON DELETE: it restricts.
Unreferenced(a) == RowsOf(a) = {}

-----------------------------------------------------------------------------
\* Requests.  One that fails before it writes - an invalid body, a constraint,
\* an error of the database - is answered and changes nothing.

\* A request that consists of one statement.
OneStep(r) == rpc[r] = "free" /\ UNCHANGED <<rpc, held>>

\* The first half of a PUT: the row, or none, and the id it was asked for.
Read(r, kind, id, row) ==
    /\ rpc[r] = "free"
    /\ rpc' = [rpc EXCEPT ![r] = kind]
    /\ held' = [held EXCEPT ![r] = [id |-> id, row |-> row]]
    /\ UNCHANGED <<group, app, transfer, born>>

\* A PUT is over.
Done(r) ==
    /\ rpc' = [rpc EXCEPT ![r] = "free"]
    /\ held' = [held EXCEPT ![r] = Absent]

\* A PUT ends without writing: 400, or 500 when the statement fails, or when
\* there was no row (a nil dereference, recovered).
PutFails(r) ==
    /\ rpc[r] # "free" /\ Done(r)
    /\ UNCHANGED <<group, app, transfer, born>>

-----------------------------------------------------------------------------
\* Groups

CreateGroup(r, g) ==
    /\ OneStep(r) /\ g \notin born
    /\ \E n \in Names \ {NoName} :
         /\ GroupNameFree(g, n)
         /\ group' = [group EXCEPT ![g] = [name |-> n]]
    /\ born' = born \union {g}
    /\ UNCHANGED <<app, transfer>>

UpdateGroupRead(r, g) == Read(r, "group", g, group[g])

\* UPDATE groups ... WHERE id=?: no effect, and no error, when the row is gone.
UpdateGroupRow(g, new) ==
    /\ HasGroup(g) => GroupNameFree(g, new.name)
    /\ group' = IF HasGroup(g) THEN [group EXCEPT ![g] = new] ELSE group

Given(new, old) == IF new = Keep THEN old ELSE new

UpdateGroupWrite(r) ==
    /\ rpc[r] = "group" /\ held[r].row # Absent
    /\ Done(r)
    /\ \E n \in Names \union {Keep} :
         UpdateGroupRow(held[r].id, [name |-> Given(n, held[r].row.name)])
    /\ UNCHANGED <<app, transfer, born>>

\* Apps go with their group (ON DELETE CASCADE); one app that a transfer refers
\* to makes the whole statement fail.
DeleteGroup(r, g) ==
    /\ OneStep(r)
    /\ \A a \in AppsOf(g) : Unreferenced(a)
    /\ group' = [group EXCEPT ![g] = Absent]
    /\ app' = [a \in AppIds |-> IF a \in AppsOf(g) THEN Absent ELSE app[a]]
    /\ UNCHANGED <<transfer, born>>

-----------------------------------------------------------------------------
\* Apps

\* Service.CreateApp: secrets are encrypted, the app starts enabled.
NewApp(g, n, conf, secret) ==
    [group |-> g, name |-> n, enabled |-> TRUE,
     side |-> [s \in Sides |-> [conf |-> conf[s], secret |-> Encrypt(secret[s])]]]

CreateApp(r, a, g) ==
    /\ OneStep(r) /\ a \notin born
    /\ HasGroup(g)
    /\ \E n \in Names \ {NoName} :
         /\ AppNameFree(a, g, n)
         /\ \E conf \in [Sides -> Confs], secret \in [Sides -> Secrets] :
              app' = [app EXCEPT ![a] = NewApp(g, n, conf, secret)]
    /\ born' = born \union {a}
    /\ UNCHANGED <<group, transfer>>

UpdateAppRead(r, a) == Read(r, "app", a, app[a])

\* The body of a PUT: every field may be left out; a side that is there has
\* all its settings, and an empty secret means "unchanged".
Patch == [name : Names \union {Keep}, enabled : BOOLEAN \union {Keep},
          side : [Sides -> {Keep} \union [conf : Confs, secret : Secrets]]]

\* Variant: a secret that was left out is encrypted again.
PatchSideResealed(old, p) ==
    IF p = Keep THEN old
    ELSE [conf |-> p.conf,
          secret |-> Encrypt(IF p.secret = NoSecret THEN old.secret ELSE p.secret)]

PatchSide(old, p) ==
    IF p = Keep THEN old
    ELSE [conf |-> p.conf,
          secret |-> IF p.secret = NoSecret THEN old.secret ELSE Encrypt(p.secret)]

Patched(old, p) ==
    [group |-> old.group, name |-> Given(p.name, old.name),
     enabled |-> Given(p.enabled, old.enabled),
     side |-> [s \in Sides |-> PatchSide(old.side[s], p.side[s])]]

\* Variant: INSERT OR REPLACE.
UpsertAppRow(a, new) == app' = [app EXCEPT ![a] = new]

\* UPDATE apps ... WHERE id=?: every column is written, if the row is there.
UpdateAppRow(a, new) ==
    /\ HasApp(a) => AppNameFree(a, new.group, new.name)
    /\ app' = IF HasApp(a) THEN [app EXCEPT ![a] = new] ELSE app

UpdateAppWrite(r) ==
    /\ rpc[r] = "app" /\ held[r].row # Absent
    /\ Done(r)
    /\ \E p \in Patch : UpdateAppRow(held[r].id, Patched(held[r].row, p))
    /\ UNCHANGED <<group, transfer, born>>

DeleteApp(r, a) ==
    /\ OneStep(r)
    /\ Unreferenced(a)
    /\ app' = [app EXCEPT ![a] = Absent]
    /\ UNCHANGED <<group, transfer, born>>

-----------------------------------------------------------------------------
\* Rows of the webhook handler and the workers

\* CreateTransfer for an app the handler resolved earlier: the reference is
\* checked by the INSERT.
CreateTransfer(t, a) ==
    /\ transfer[t] = Absent /\ HasApp(a)
    /\ transfer' = [transfer EXCEPT ![t] = [app |-> a, active |-> TRUE]]
    /\ UNCHANGED <<group, app, born, rpc, held>>

FinishTransfer(t) ==
    /\ transfer[t] # Absent /\ transfer[t].active
    /\ transfer' = [transfer EXCEPT ![t].active = FALSE]
    /\ UNCHANGED <<group, app, born, rpc, held>>

-----------------------------------------------------------------------------
RegInit ==
    /\ group = [g \in GroupIds |-> Absent] /\ app = [a \in AppIds |-> Absent]
    /\ transfer = [t \in TransferIds |-> Absent]
    /\ born = {}
    /\ rpc = [r \in Requests |-> "free"] /\ held = [r \in Requests |-> Absent]

ApiStep(r) ==
    \/ \E g \in GroupIds : CreateGroup(r, g) \/ UpdateGroupRead(r, g) \/ DeleteGroup(r, g)
    \/ \E a \in AppIds :
         \/ \E g \in GroupIds : CreateApp(r, a, g)
         \/ UpdateAppRead(r, a) \/ DeleteApp(r, a)
    \/ UpdateGroupWrite(r) \/ UpdateAppWrite(r) \/ PutFails(r)

RegNext ==
    \/ \E r \in Requests : ApiStep(r)
    \/ \E t \in TransferIds : FinishTransfer(t) \/ \E a \in AppIds : CreateTransfer(t, a)

RegSpec == RegInit /\ [][RegNext]_regVars

-----------------------------------------------------------------------------
\* Properties

\* What a PUT has read: a row, or that there is none, under the id it asked for.
HeldGroup == [id : GroupIds, row : Group \union {Absent}]
HeldApp   == [id : AppIds, row : App \union {Absent}]

\* Every row has its type; in particular a stored secret is always exactly one
\* encryption of a key somebody entered, also after a PUT that left it out.
RegistryTypeOK ==
    /\ group \in [GroupIds -> Group \union {Absent}]
    /\ app \in [AppIds -> App \union {Absent}]
    /\ transfer \in [TransferIds -> Row \union {Absent}]
    /\ born \subseteq GroupIds \union AppIds
    /\ rpc \in [Requests -> {"free", "group", "app"}]
    /\ held \in [Requests -> HeldGroup \union HeldApp \union {Absent}]
    /\ \A r \in Requests : /\ rpc[r] = "group" => held[r] \in HeldGroup
                           /\ rpc[r] = "app" => held[r] \in HeldApp

\* No row is left without the row it refers to: deleting a group while an app is
\* created in it, or an app while a webhook for it is under way.
NoOrphans ==
    /\ \A a \in AppIds : HasApp(a) => HasGroup(app[a].group)
    /\ \A t \in TransferIds : transfer[t] # Absent => HasApp(transfer[t].app)

\* A PUT that read a group or an app before it was deleted does not bring it
\* back when it writes.
DeletedStaysDeleted ==
    [][/\ \A g \in born \intersect GroupIds : group[g] = Absent => group'[g] = Absent
       /\ \A a \in born \intersect AppIds : app[a] = Absent => app'[a] = Absent]_regVars
=============================================================================
