---------------------------- MODULE StorageProofs ----------------------------
(***************************************************************************)
(* Proofs about the store, for any batch and channel sizes, any number of  *)
(* requests and starts, failing statements and a kill at any step: the     *)
(* migrations, the batch writer on top of them, and the serial writer the  *)
(* batch writer implements.                                                *)
(***************************************************************************)
EXTENDS Storage, SequenceTheorems, TLAPS

\* What has been created when Migrate is at statement i of script k.
Before(k, i) ==
    ObjectsOf(k - 1) \union
      {Scripts[k][j].object : j \in {h \in 1..(i - 1) : Scripts[k][h].kind # "record"}}

-----------------------------------------------------------------------------
\* Facts about the scripts themselves.

LEMMA ScriptLengths ==
    /\ Len(Scripts) = 4
    /\ Scripts[1] = Schema001 /\ Scripts[2] = Schema002
    /\ Scripts[3] = Schema003 /\ Scripts[4] = Schema004
    /\ Len(Scripts[1]) = 9 /\ Len(Scripts[2]) = 3
    /\ Len(Scripts[3]) = 6 /\ Len(Scripts[4]) = 2
<1>1. /\ Len(Scripts) = 4
      /\ Scripts[1] = Schema001 /\ Scripts[2] = Schema002
      /\ Scripts[3] = Schema003 /\ Scripts[4] = Schema004
  BY DEF Scripts
<1>2. Len(Schema001) = 9 /\ Len(Schema002) = 3 /\ Len(Schema003) = 6 /\ Len(Schema004) = 2
  BY DEF Schema001, Schema002, Schema003, Schema004
<1> QED BY <1>1, <1>2, Zenon

LEMMA ScriptsNotEmpty ==
    ASSUME NEW k \in 1..4
    PROVE  Len(Scripts[k]) \in Nat \ {0}
<1>1. k = 1 \/ k = 2 \/ k = 3 \/ k = 4
  OBVIOUS
<1>2. CASE k = 1
  BY <1>2, ScriptLengths
<1>3. CASE k = 2
  BY <1>3, ScriptLengths
<1>4. CASE k = 3
  BY <1>4, ScriptLengths
<1>5. CASE k = 4
  BY <1>5, ScriptLengths
<1> QED BY <1>1, <1>2, <1>3, <1>4, <1>5

\* A statement that is not the last one creates something, the last one records
\* the number of its script.
LEMMA ScriptStatements ==
    ASSUME NEW k \in 1..4, NEW i \in 1..Len(Scripts[k])
    PROVE  /\ Len(Scripts[k]) \in Nat \ {0}
           /\ i < Len(Scripts[k]) => Scripts[k][i].kind \in {"create", "alter"}
           /\ i = Len(Scripts[k]) => Scripts[k][i].kind = "record" /\ Scripts[k][i].version = k
<1>1. CASE k = 1
  BY <1>1, ScriptLengths DEF Schema001, Create, Record
<1>2. CASE k = 2
  BY <1>2, ScriptLengths DEF Schema002, Alter, Record
<1>3. CASE k = 3
  BY <1>3, ScriptLengths DEF Schema003, Alter, Record
<1>4. CASE k = 4
  BY <1>4, ScriptLengths DEF Schema004, Create, Record
<1> QED BY <1>1, <1>2, <1>3, <1>4

LEMMA ObjectsMembers ==
    ASSUME NEW v, NEW x
    PROVE  x \in ObjectsOf(v) <=>
             \E k \in 1..v : \E i \in 1..Len(Scripts[k]) :
                Scripts[k][i].kind # "record" /\ x = Scripts[k][i].object
<1> DEFINE Objects(k) == {Scripts[k][i].object : i \in {j \in 1..Len(Scripts[k]) :
                                                       Scripts[k][j].kind # "record"}}
<1>1. ASSUME NEW k
      PROVE  x \in Objects(k) <=> \E i \in 1..Len(Scripts[k]) :
                                    Scripts[k][i].kind # "record" /\ x = Scripts[k][i].object
  BY Zenon
<1>2. x \in ObjectsOf(v) <=> \E k \in 1..v : x \in Objects(k)
  BY Zenon DEF ObjectsOf
<1> HIDE DEF Objects
<1> QED BY <1>1, <1>2, Zenon

LEMMA BeforeMembers ==
    ASSUME NEW k, NEW i, NEW x
    PROVE  x \in Before(k, i) <=>
             \/ x \in ObjectsOf(k - 1)
             \/ \E j \in 1..(i - 1) : Scripts[k][j].kind # "record" /\ x = Scripts[k][j].object
  BY Zenon DEF Before

\* At the start of a script the ones before it are complete.
LEMMA BeforeFirst ==
    ASSUME NEW k, NEW l, l = k - 1
    PROVE  Before(k, 1) = ObjectsOf(l)
<1>1. ASSUME NEW j \in 1..(1 - 1)
      PROVE  FALSE
  OBVIOUS
<1>2. \A x : x \in Before(k, 1) <=> x \in ObjectsOf(l)
  BY <1>1, BeforeMembers, Zenon
<1> QED BY <1>2, Zenon

\* Passing a statement adds what it creates; the last one adds nothing.
LEMMA BeforeStep ==
    ASSUME NEW k \in 1..4, NEW i \in 1..Len(Scripts[k])
    PROVE  /\ i < Len(Scripts[k]) => Before(k, i + 1) = Before(k, i) \union {Scripts[k][i].object}
           /\ i = Len(Scripts[k]) => ObjectsOf(k) = Before(k, i)
<1> Len(Scripts[k]) \in Nat
  BY ScriptStatements
<1>1. ASSUME i < Len(Scripts[k])
      PROVE  Before(k, i + 1) = Before(k, i) \union {Scripts[k][i].object}
  <2>1. Scripts[k][i].kind # "record"
    BY <1>1, ScriptStatements
  <2>2. \A j : j \in 1..(i + 1 - 1) <=> j \in 1..(i - 1) \/ j = i
    OBVIOUS
  <2>3. ASSUME NEW x
        PROVE  x \in Before(k, i + 1) <=> x \in Before(k, i) \union {Scripts[k][i].object}
    <3>1. x \in Before(k, i + 1) <=>
            \/ x \in ObjectsOf(k - 1)
            \/ \E j \in 1..(i + 1 - 1) : Scripts[k][j].kind # "record" /\ x = Scripts[k][j].object
      BY BeforeMembers
    <3>2. x \in Before(k, i) <=>
            \/ x \in ObjectsOf(k - 1)
            \/ \E j \in 1..(i - 1) : Scripts[k][j].kind # "record" /\ x = Scripts[k][j].object
      BY BeforeMembers
    <3> QED BY <2>1, <2>2, <3>1, <3>2, Zenon
  <2> QED BY <2>3, Zenon
<1>2. ASSUME i = Len(Scripts[k])
      PROVE  ObjectsOf(k) = Before(k, i)
  <2>1. Scripts[k][i].kind = "record"
    BY <1>2, ScriptStatements
  <2>2. \A j : j \in 1..Len(Scripts[k]) <=> j \in 1..(i - 1) \/ j = i
    BY <1>2
  <2>3. \A l : l \in 1..k <=> l \in 1..(k - 1) \/ l = k
    OBVIOUS
  <2>4. ASSUME NEW x
        PROVE  x \in ObjectsOf(k) <=>
                 x \in ObjectsOf(k - 1) \/ \E j \in 1..Len(Scripts[k]) :
                   Scripts[k][j].kind # "record" /\ x = Scripts[k][j].object
    <3>1. x \in ObjectsOf(k) <=>
            \E l \in 1..k : \E j \in 1..Len(Scripts[l]) :
               Scripts[l][j].kind # "record" /\ x = Scripts[l][j].object
      BY ObjectsMembers
    <3>2. x \in ObjectsOf(k - 1) <=>
            \E l \in 1..(k - 1) : \E j \in 1..Len(Scripts[l]) :
               Scripts[l][j].kind # "record" /\ x = Scripts[l][j].object
      BY ObjectsMembers
    <3> QED BY <2>3, <3>1, <3>2, Zenon
  <2>5. ASSUME NEW x
        PROVE  x \in ObjectsOf(k) <=> x \in Before(k, i)
    BY <2>1, <2>2, <2>4, BeforeMembers
  <2> QED BY <2>5, Zenon
<1> QED BY <1>1, <1>2

\* No column is added twice, nor added where the scripts before created it.
LEMMA AlterIsFresh ==
    ASSUME NEW k \in 1..4, NEW i \in 1..Len(Scripts[k]), Scripts[k][i].kind = "alter"
    PROVE  Scripts[k][i].object \notin Before(k, i)
<1> DEFINE First  == {"groups", "apps", "idx_apps_route", "transfers",
                      "idx_transfers_app_id", "idx_transfers_status",
                      "idx_transfers_created", "schema_version"}
           Second == {"src_skip_tls_verify", "dst_skip_tls_verify"}
           Third  == {"retry_max_attempts", "retry_backoff_seconds", "retry_count",
                      "max_retries", "next_retry_at"}
<1>0. \A x : x \in Before(k, i) <=>
               \/ x \in ObjectsOf(k - 1)
               \/ \E j \in 1..(i - 1) : Scripts[k][j].kind # "record" /\ x = Scripts[k][j].object
  BY Zenon DEF Before
<1>1. \A j \in 1..Len(Scripts[1]) :
         /\ Scripts[1][j].kind # "alter"
         /\ Scripts[1][j].kind # "record" => Scripts[1][j].object \in First
  BY ScriptLengths DEF Schema001, Create, Record
<1>2. \A j \in 1..Len(Scripts[2]) :
         Scripts[2][j].kind # "record" => Scripts[2][j].object \in Second
  BY ScriptLengths DEF Schema002, Alter, Record
<1>3. \A j \in 1..Len(Scripts[3]) :
         Scripts[3][j].kind # "record" => Scripts[3][j].object \in Third
  BY ScriptLengths DEF Schema003, Alter, Record
<1>4. \A j \in 1..Len(Scripts[4]) : Scripts[4][j].kind # "alter"
  BY ScriptLengths DEF Schema004, Create, Record
<1>5. First \intersect Second = {} /\ (First \union Second) \intersect Third = {}
  OBVIOUS
<1> HIDE DEF First, Second, Third
<1>6. CASE k = 2
  <2>1. \A j \in 1..(i - 1) : Scripts[2][j].object # Scripts[2][i].object
    BY <1>6, ScriptLengths DEF Schema002, Alter, Record
  <2>2. \A x \in ObjectsOf(2 - 1) : x \in First
    <3> \A l : l \in 1..(2 - 1) <=> l = 1
      OBVIOUS
    <3> QED BY <1>1, ObjectsMembers
  <2>3. Scripts[2][i].object \in Second
    BY <1>2, <1>6, Zenon
  <2>4. Scripts[2][i].object \notin ObjectsOf(2 - 1)
    BY <1>5, <2>2, <2>3
  <2>5. Scripts[k][i].object \notin ObjectsOf(k - 1)
    BY <1>6, <2>4
  <2>6. \A j \in 1..(i - 1) : Scripts[k][j].object # Scripts[k][i].object
    BY <1>6, <2>1
  <2> QED BY <1>0, <2>5, <2>6
<1>7. CASE k = 3
  <2>1. \A j \in 1..(i - 1) : Scripts[3][j].object # Scripts[3][i].object
    BY <1>7, ScriptLengths DEF Schema003, Alter, Record
  <2>2. \A x \in ObjectsOf(3 - 1) : x \in First \union Second
    <3> \A l : l \in 1..(3 - 1) <=> l = 1 \/ l = 2
      OBVIOUS
    <3> QED BY <1>1, <1>2, ObjectsMembers
  <2>3. Scripts[3][i].object \in Third
    BY <1>3, <1>7, Zenon
  <2>4. Scripts[3][i].object \notin ObjectsOf(3 - 1)
    BY <1>5, <2>2, <2>3
  <2>5. Scripts[k][i].object \notin ObjectsOf(k - 1)
    BY <1>7, <2>4
  <2>6. \A j \in 1..(i - 1) : Scripts[k][j].object # Scripts[k][i].object
    BY <1>7, <2>1
  <2> QED BY <1>0, <2>5, <2>6
<1> QED BY <1>1, <1>4, <1>6, <1>7

-----------------------------------------------------------------------------
\* Migrate.

\* Everything up to the point Migrate has reached exists; at the end, all of it.
AppliedSoFar ==
    /\ Pending => Before(script, stmt) \subseteq schema
    /\ (mpc = "up" \/ (mpc = "apply" /\ ~Pending)) => schema = AllObjects

\* What a recorded version stands for exists.
RecordedIsThere == \A v \in versions : ObjectsOf(v) \subseteq schema

\* While no Migrate was cut short there is nothing else either: between two of
\* them the database is one that some release left complete.
NothingElse ==
    interrupted = FALSE =>
        /\ mpc # "failed"
        /\ mpc \in {"down", "read"} =>
             \E v \in 0..4 : schema = ObjectsOf(v) /\ versions = 1..v
        /\ Pending => schema = Before(script, stmt) /\ versions = 1..(script - 1)
        /\ (mpc = "up" \/ (mpc = "apply" /\ ~Pending)) => versions = 1..4

MigInv == MigTypeOK /\ AppliedSoFar /\ RecordedIsThere /\ NothingElse

MigNext == MigrateStep \/ Migrated \/ Vanish

LEMMA NoObjects == ObjectsOf(0) = {}
<1>1. \A x : x \notin ObjectsOf(0)
  <2> \A k : k \notin 1..0
    OBVIOUS
  <2> QED BY ObjectsMembers
<1> QED BY <1>1, Zenon

LEMMA ObjectsGrow ==
    ASSUME NEW v \in 0..4
    PROVE  ObjectsOf(v) \subseteq AllObjects
<1>1. ASSUME NEW x \in ObjectsOf(v)
      PROVE  x \in ObjectsOf(4)
  <2>1. PICK k \in 1..v : \E i \in 1..Len(Scripts[k]) :
              Scripts[k][i].kind # "record" /\ x = Scripts[k][i].object
    BY ObjectsMembers
  <2>2. k \in 1..4
    OBVIOUS
  <2> QED BY <2>1, <2>2, ObjectsMembers
<1> QED BY <1>1, ScriptLengths DEF AllObjects

LEMMA MigInitially == MigInit => MigInv
<1> SUFFICES ASSUME MigInit
             PROVE  MigInv
  OBVIOUS
<1> PICK v \in 0..Len(Scripts) : schema = ObjectsOf(v) /\ versions = 1..v
  BY DEF MigInit
<1> v \in 0..4 /\ Len(Scripts) = 4
  BY ScriptLengths
<1>0. ~Pending /\ mpc = "down" /\ interrupted = FALSE
  BY DEF MigInit, Pending
<1>1. MigTypeOK
  <2>1. Len(Scripts[1]) \in Nat \ {0}
    BY ScriptLengths
  <2>2. schema \subseteq AllObjects
    BY ObjectsGrow
  <2>3. script = 1 /\ stmt = 1 /\ starts = 0 /\ 0 \in 0..MaxStarts
    BY StartsNat DEF MigInit
  <2>4. 1 \in 1..Len(Scripts[1]) /\ versions \subseteq 1..4
    BY <2>1
  <2>5. script \in 1..Len(Scripts) + 1 /\ stmt \in 1..Len(Scripts[script])
    BY <2>3, <2>4
  <2> QED BY <1>0, <2>2, <2>3, <2>4, <2>5 DEF MigTypeOK
<1>2. AppliedSoFar
  BY <1>0 DEF AppliedSoFar
<1>3. RecordedIsThere
  <2>1. ASSUME NEW u \in 1..v, NEW x \in ObjectsOf(u)
        PROVE  x \in ObjectsOf(v)
    <3>1. PICK k \in 1..u : \E i \in 1..Len(Scripts[k]) :
                Scripts[k][i].kind # "record" /\ x = Scripts[k][i].object
      BY ObjectsMembers
    <3>2. k \in 1..v
      OBVIOUS
    <3> QED BY <3>1, <3>2, ObjectsMembers
  <2> QED BY <2>1 DEF RecordedIsThere
<1>4. NothingElse
  BY <1>0 DEF NothingElse
<1> QED BY <1>1, <1>2, <1>3, <1>4 DEF MigInv

LEMMA MigApply ==
    ASSUME MigInv, Apply
    PROVE  MigInv'
<1> DEFINE k == script
           i == stmt
<1>1. /\ Len(Scripts) = 4 /\ k \in 1..4 /\ i \in 1..Len(Scripts[k])
      /\ Len(Scripts[k]) \in Nat \ {0}
      /\ mpc = "apply" /\ mpc' = "apply" /\ starts' = starts /\ interrupted' = interrupted
      /\ schema \subseteq AllObjects /\ versions \subseteq 1..4
      /\ starts \in 0..MaxStarts /\ interrupted \in BOOLEAN
      /\ Before(k, i) \subseteq schema
      /\ \A v \in versions : ObjectsOf(v) \subseteq schema
  BY ScriptLengths, ScriptStatements DEF MigInv, MigTypeOK, AppliedSoFar, RecordedIsThere, Apply, Pending
<1>2. ASSUME interrupted = FALSE
      PROVE  schema = Before(k, i) /\ versions = 1..(k - 1)
  BY <1>2 DEF MigInv, NothingElse, Apply
<1>3. CASE i < Len(Scripts[k])
  <2>1. /\ Scripts[k][i].kind # "record" /\ Scripts[k][i].object \in AllObjects
        /\ Before(k, i + 1) = Before(k, i) \union {Scripts[k][i].object}
    <3>1. Scripts[k][i].kind # "record"
      BY <1>1, <1>3, ScriptStatements
    <3>2. Scripts[k][i].object \in ObjectsOf(4)
      BY <1>1, <3>1, ObjectsMembers
    <3> QED BY <1>1, <1>3, <3>1, <3>2, BeforeStep DEF AllObjects
  <2>2. /\ schema' = schema \union {Scripts[k][i].object} /\ versions' = versions
        /\ script' = k /\ stmt' = i + 1
    BY <1>3, <2>1 DEF Apply, Current, Advance
  <2>3. Pending' /\ stmt' \in 1..Len(Scripts[k])
    BY <1>1, <1>3, <2>2 DEF Pending
  <2>4. MigTypeOK'
    BY <1>1, <2>1, <2>2, <2>3 DEF MigTypeOK
  <2>5. AppliedSoFar'
    BY <1>1, <2>1, <2>2, <2>3 DEF AppliedSoFar
  <2>6. RecordedIsThere'
    BY <1>1, <2>2 DEF RecordedIsThere
  <2>7. NothingElse'
    BY <1>1, <1>2, <2>1, <2>2, <2>3 DEF NothingElse
  <2> QED BY <2>4, <2>5, <2>6, <2>7 DEF MigInv
<1>4. CASE i = Len(Scripts[k])
  <2>1. /\ Scripts[k][i].kind = "record" /\ Scripts[k][i].version = k
        /\ ObjectsOf(k) = Before(k, i)
    BY <1>1, <1>4, ScriptStatements, BeforeStep
  <2>2. /\ schema' = schema /\ versions' = versions \union {k}
        /\ script' = k + 1 /\ stmt' = 1
    BY <1>1, <1>4, <2>1 DEF Apply, Current, Advance
  <2>3. ObjectsOf(k) \subseteq schema
    BY <1>1, <2>1
  <2>4. RecordedIsThere'
    BY <1>1, <2>2, <2>3 DEF RecordedIsThere
  <2>5. interrupted = FALSE => schema = ObjectsOf(k) /\ versions' = 1..k
    <3> 1..k = 1..(k - 1) \union {k}
      BY <1>1
    <3> QED BY <1>2, <2>1, <2>2
  <2>6. CASE k < 4
    <3>1. PICK l \in 1..4 : l = k + 1
      BY <1>1, <2>6
    <3>2. script' = l /\ k = l - 1
      BY <1>1, <2>2, <3>1
    <3>3. Before(l, 1) = ObjectsOf(k)
      BY <3>2, BeforeFirst, Zenon
    <3>4. Pending' /\ 1 \in 1..Len(Scripts[l])
      BY <1>1, <3>2, ScriptsNotEmpty DEF Pending
    <3>5. MigTypeOK'
      BY <1>1, <2>2, <3>2, <3>4 DEF MigTypeOK
    <3>6. AppliedSoFar'
      BY <1>1, <2>2, <2>3, <3>2, <3>3, <3>4 DEF AppliedSoFar
    <3>7. NothingElse'
      BY <1>1, <2>2, <2>5, <3>2, <3>3, <3>4 DEF NothingElse
    <3> QED BY <2>4, <3>5, <3>6, <3>7 DEF MigInv
  <2>7. CASE k = 4
    <3>1. ~Pending' /\ script' = 5
      BY <1>1, <2>2, <2>7 DEF Pending
    <3>2. schema = AllObjects
      BY <1>1, <2>3, <2>7 DEF AllObjects
    <3>3. MigTypeOK'
      BY <1>1, <2>2, <2>7, <3>1 DEF MigTypeOK
    <3>4. AppliedSoFar'
      BY <2>2, <3>1, <3>2 DEF AppliedSoFar
    <3>5. NothingElse'
      BY <1>1, <2>5, <2>7, <3>1 DEF NothingElse
    <3> QED BY <2>4, <3>3, <3>4, <3>5 DEF MigInv
  <2> QED BY <1>1, <2>6, <2>7
<1> QED BY <1>1, <1>3, <1>4

LEMMA MigReadVersion ==
    ASSUME MigInv, ReadVersion
    PROVE  MigInv'
<1>1. /\ Len(Scripts) = 4 /\ mpc = "read" /\ mpc' = "apply" /\ stmt' = 1
      /\ schema' = schema /\ versions' = versions /\ starts' = starts
      /\ schema \subseteq AllObjects /\ versions \subseteq 1..4
      /\ starts \in 0..MaxStarts /\ interrupted \in BOOLEAN
      /\ \A v \in versions : ObjectsOf(v) \subseteq schema
  BY ScriptLengths DEF MigInv, MigTypeOK, RecordedIsThere, ReadVersion
<1>2. PICK v \in 0..4 :
        /\ \/ v = 0 /\ versions = {} /\ interrupted' = interrupted
           \/ v \in versions /\ (\A u \in versions : u <= v) /\ interrupted' = interrupted
           \/ v = 0 /\ versions # {} /\ StmtMayFail /\ interrupted' = TRUE
        /\ script' = v + 1
  BY <1>1 DEF ReadVersion
<1>3. interrupted' \in BOOLEAN
  BY <1>1, <1>2
<1>4. ObjectsOf(v) \subseteq schema
  <2>1. CASE v = 0
    BY <2>1, NoObjects
  <2>2. CASE v \in versions
    BY <1>1, <2>2
  <2> QED BY <1>2, <2>1, <2>2
<1>5. ASSUME interrupted' = FALSE
      PROVE  schema = ObjectsOf(v) /\ versions = 1..v
  <2>1. interrupted = FALSE
    BY <1>2, <1>5
  <2>2. PICK w \in 0..4 : schema = ObjectsOf(w) /\ versions = 1..w
    BY <1>1, <2>1 DEF MigInv, NothingElse
  <2>3. v = w
    <3>1. CASE w = 0
      BY <1>2, <2>2, <3>1
    <3>2. CASE w # 0
      <4>1. w \in versions /\ (v \in versions => v <= w)
        BY <2>2, <3>2
      <4>2. v \in versions /\ w <= v
        BY <1>2, <1>5, <4>1
      <4> QED BY <4>1, <4>2
    <3> QED BY <3>1, <3>2
  <2> QED BY <2>2, <2>3, Zenon
<1>6. RecordedIsThere'
  BY <1>1 DEF RecordedIsThere
<1>7. CASE v < 4
  <2>1. PICK k \in 1..4 : k = v + 1
    BY <1>7
  <2>2. script' = k /\ v = k - 1
    BY <1>2, <2>1
  <2>3. Before(k, 1) = ObjectsOf(v)
    BY <2>2, BeforeFirst, Zenon
  <2>4. Pending' /\ 1 \in 1..Len(Scripts[k])
    BY <1>1, <2>2, ScriptsNotEmpty DEF Pending
  <2>5. MigTypeOK'
    BY <1>1, <1>3, <2>2, <2>4 DEF MigTypeOK
  <2>6. AppliedSoFar'
    BY <1>1, <1>4, <2>2, <2>3, <2>4 DEF AppliedSoFar
  <2>7. NothingElse'
    BY <1>1, <1>5, <2>2, <2>3, <2>4 DEF NothingElse
  <2> QED BY <1>6, <2>5, <2>6, <2>7 DEF MigInv
<1>8. CASE v = 4
  <2>1. ~Pending' /\ script' = 5
    BY <1>1, <1>2, <1>8 DEF Pending
  <2>2. schema = AllObjects
    BY <1>1, <1>4, <1>8 DEF AllObjects
  <2>3. MigTypeOK'
    BY <1>1, <1>3, <2>1 DEF MigTypeOK
  <2>4. AppliedSoFar'
    BY <1>1, <2>1, <2>2 DEF AppliedSoFar
  <2>5. NothingElse'
    BY <1>1, <1>5, <1>8, <2>1 DEF NothingElse
  <2> QED BY <1>6, <2>3, <2>4, <2>5 DEF MigInv
<1> QED BY <1>7, <1>8

LEMMA MigPreserved == MigInv /\ [MigNext]_migVars => MigInv'
<1> SUFFICES ASSUME MigInv, [MigNext]_migVars
             PROVE  MigInv'
  OBVIOUS
<1> USE DEF MigInv
<1>1. CASE StartProcess
  <2>1. MigTypeOK'
    BY <1>1, StartsNat DEF MigTypeOK, StartProcess
  <2>2. AppliedSoFar' /\ RecordedIsThere' /\ NothingElse'
    BY <1>1 DEF AppliedSoFar, RecordedIsThere, NothingElse, StartProcess, Pending
  <2> QED BY <2>1, <2>2
<1>2. CASE ReadVersion
  BY <1>2, MigReadVersion
<1>3. CASE Apply
  BY <1>3, MigApply
<1>4. CASE Duplicate
  <2>1. Len(Scripts) = 4 /\ script \in 1..4 /\ stmt \in 1..Len(Scripts[script])
    BY <1>4, ScriptLengths DEF MigTypeOK, Duplicate, Pending
  <2>2. Scripts[script][stmt].kind = "alter" /\ Scripts[script][stmt].object \in schema
    BY <1>4 DEF Duplicate, Current
  <2>3. Scripts[script][stmt].object \notin Before(script, stmt)
    BY <2>1, <2>2, AlterIsFresh
  <2>4. interrupted # FALSE
    BY <1>4, <2>2, <2>3 DEF NothingElse, Duplicate
  <2>5. MigTypeOK' /\ AppliedSoFar' /\ RecordedIsThere'
    BY <1>4 DEF MigTypeOK, AppliedSoFar, RecordedIsThere, Duplicate, Pending
  <2>6. NothingElse'
    BY <1>4, <2>4 DEF NothingElse, Duplicate
  <2> QED BY <2>5, <2>6
<1>5. CASE StatementFails
  BY <1>5 DEF MigTypeOK, AppliedSoFar, RecordedIsThere, NothingElse, StatementFails, Pending
<1>6. CASE Migrated
  BY <1>6 DEF MigTypeOK, AppliedSoFar, RecordedIsThere, NothingElse, Migrated, Pending
<1>7. CASE Vanish
  <2>1. MigTypeOK' /\ AppliedSoFar' /\ RecordedIsThere'
    BY <1>7 DEF MigTypeOK, AppliedSoFar, RecordedIsThere, Vanish, Pending
  <2>2. ASSUME interrupted' = FALSE
        PROVE  /\ mpc' = "down"
               /\ \E v \in 0..4 : schema' = ObjectsOf(v) /\ versions' = 1..v
    <3>1. interrupted = FALSE /\ ~Pending /\ mpc \in {"read", "apply", "up"}
      BY <1>7, <2>2 DEF Vanish, MigTypeOK, Pending
    <3>2. CASE mpc = "read"
      BY <1>7, <3>1, <3>2 DEF NothingElse, Vanish
    <3>3. CASE mpc # "read"
      <4>1. versions = 1..4 /\ schema = ObjectsOf(4)
        BY <3>1, <3>3, ScriptLengths DEF NothingElse, AppliedSoFar, AllObjects
      <4> QED BY <1>7, <4>1 DEF Vanish
    <3> QED BY <3>2, <3>3
  <2>3. NothingElse'
    BY <2>2 DEF NothingElse, Pending
  <2> QED BY <2>1, <2>3
<1>8. CASE UNCHANGED migVars
  BY <1>8 DEF migVars, MigTypeOK, AppliedSoFar, RecordedIsThere, NothingElse, Pending
<1> QED
  BY <1>1, <1>2, <1>3, <1>4, <1>5, <1>6, <1>7, <1>8 DEF MigNext, MigrateStep

-----------------------------------------------------------------------------
\* Facts about sequences.

LEMMA ElemsMember ==
    ASSUME NEW s, NEW r
    PROVE  r \in Elems(s) <=> \E i \in 1..Len(s) : s[i] = r
  BY DEF Elems

LEMMA ElemsAppend ==
    ASSUME NEW S, NEW s \in Seq(S), NEW x \in S
    PROVE  Elems(Append(s, x)) = Elems(s) \union {x}
<1>1. /\ Len(Append(s, x)) = Len(s) + 1 /\ Len(s) \in Nat
      /\ \A i \in 1..Len(s) : Append(s, x)[i] = s[i]
      /\ Append(s, x)[Len(s) + 1] = x
  BY AppendProperties, LenProperties
<1>2. ASSUME NEW y \in Elems(Append(s, x))
      PROVE  y \in Elems(s) \union {x}
  BY <1>1 DEF Elems
<1>3. ASSUME NEW y \in Elems(s) \union {x}
      PROVE  y \in Elems(Append(s, x))
  BY <1>1 DEF Elems
<1> QED BY <1>2, <1>3

LEMMA MoveHead ==
    ASSUME NEW S, NEW b \in Seq(S), NEW c \in Seq(S), c # <<>>
    PROVE  Append(b, Head(c)) \o Tail(c) = b \o c
<1>1. Head(c) \in S /\ Tail(c) \in Seq(S) /\ <<Head(c)>> \in Seq(S)
  BY HeadTailProperties
<1>2. Append(b, Head(c)) \o Tail(c) = (b \o <<Head(c)>>) \o Tail(c)
  BY <1>1, AppendIsConcat
<1>3. (b \o <<Head(c)>>) \o Tail(c) = b \o (<<Head(c)>> \o Tail(c))
  BY <1>1, ConcatAssociative
<1>4. <<Head(c)>> \o Tail(c) = c
  OBVIOUS
<1> QED BY <1>2, <1>3, <1>4

LEMMA AppendRight ==
    ASSUME NEW S, NEW b \in Seq(S), NEW c \in Seq(S), NEW x \in S
    PROVE  b \o Append(c, x) = Append(b \o c, x)
<1>1. <<x>> \in Seq(S) /\ b \o c \in Seq(S)
  BY ConcatProperties
<1>2. b \o Append(c, x) = b \o (c \o <<x>>)
  BY AppendIsConcat
<1>3. Append(b \o c, x) = (b \o c) \o <<x>>
  BY <1>1, AppendIsConcat
<1> QED BY <1>1, <1>2, <1>3, ConcatAssociative

LEMMA SuffixType ==
    ASSUME NEW S, NEW b \in Seq(S), NEW n \in 1..Len(b) + 1
    PROVE  SubSeq(b, n, Len(b)) \in Seq(S)
<1>1. Len(b) \in Nat /\ \A i \in 1..Len(b) : b[i] \in S
  BY LenProperties, ElementOfSeq
<1>2. \A i \in n..Len(b) : b[i] \in S
  BY <1>1
<1> QED BY <1>1, <1>2, SubSeqProperties

\* The next request of a batch is the oldest one; executing it leaves the rest.
LEMMA SuffixHead ==
    ASSUME NEW S, NEW b \in Seq(S), NEW c \in Seq(S), NEW n \in 1..Len(b)
    PROVE  LET q == SubSeq(b, n, Len(b)) \o c
           IN  /\ q \in Seq(S) /\ q # <<>>
               /\ Head(q) = b[n] /\ b[n] \in S
               /\ Tail(q) = SubSeq(b, n + 1, Len(b)) \o c
<1> DEFINE t == SubSeq(b, n + 1, Len(b))
<1>1. Len(b) \in Nat /\ n \in 1..Len(b) + 1 /\ n + 1 \in 1..Len(b) + 1
  BY LenProperties
<1>2. b[n] \in S /\ t \in Seq(S) /\ <<b[n]>> \in Seq(S)
  BY <1>1, SuffixType, ElementOfSeq
<1>3. SubSeq(b, n, Len(b)) = <<b[n]>> \o t
  <2> Len(b) \in n..Len(b)
    BY <1>1
  <2> QED BY SubSeqRecursiveFirst
<1> HIDE DEF t
<1>4. t \o c \in Seq(S)
  BY <1>2, ConcatProperties
<1>5. SubSeq(b, n, Len(b)) \o c = <<b[n]>> \o (t \o c)
  BY <1>2, <1>3, ConcatAssociative, SMTT(40)
<1>6. ASSUME NEW u \in Seq(S), NEW x \in S
      PROVE  <<x>> \o u \in Seq(S) /\ <<x>> \o u # <<>> /\ Head(<<x>> \o u) = x /\ Tail(<<x>> \o u) = u
  OBVIOUS
<1> DEFINE q == SubSeq(b, n, Len(b)) \o c
           u == t \o c
<1>7. q = <<b[n]>> \o u
  BY <1>5
<1>8. u \in Seq(S)
  BY <1>4
<1> HIDE DEF q, u
<1>9. q \in Seq(S) /\ q # <<>> /\ Head(q) = b[n] /\ Tail(q) = u
  BY <1>2, <1>6, <1>7, <1>8, Zenon
<1> QED BY <1>2, <1>9 DEF q, u, t

\* Splitting a concatenation gives its parts back.
LEMMA SplitConcat ==
    ASSUME NEW S, NEW b \in Seq(S), NEW c \in Seq(S), b # <<>>
    PROVE  /\ SubSeq(b \o c, 1, Len(b)) = b
           /\ SubSeq(b \o c, Len(b) + 1, Len(b \o c)) = c
           /\ Len(b) \in 1..Len(b \o c)
<1>1. /\ Len(b) \in Nat \ {0} /\ Len(c) \in Nat
      /\ Len(b \o c) = Len(b) + Len(c) /\ b \o c \in Seq(S)
  BY EmptySeq, LenProperties, ConcatProperties
<1>2. SubSeq(b \o c, 1, Len(b)) = b
  <2> 1 \in 1..Len(b) /\ Len(b) \in 1..Len(b)
    BY <1>1
  <2> QED BY SubSeqOfConcat1, SubSeqFull
<1>3. SubSeq(b \o c, Len(b) + 1, Len(b \o c)) = c
  <2>1. CASE c = <<>>
    <3>1. Len(b \o c) < Len(b) + 1
      BY <1>1, <2>1
    <3> QED BY <1>1, <2>1, <3>1, SubSeqEmpty
  <2>2. CASE c # <<>>
    <3>1. Len(c) \in Nat \ {0}
      BY <2>2, EmptySeq
    <3>2. /\ Len(b) + 1 \in Len(b) + 1 .. Len(b) + Len(c)
          /\ Len(b) + Len(c) \in Len(b) + 1 .. Len(b) + Len(c)
          /\ Len(b) + 1 - Len(b) = 1 /\ Len(b) + Len(c) - Len(b) = Len(c)
      BY <1>1, <3>1
    <3> QED BY <1>1, <3>2, SubSeqOfConcat2, SubSeqFull
  <2> QED BY <2>1, <2>2
<1> QED BY <1>1, <1>2, <1>3

-----------------------------------------------------------------------------
\* The batch writer.

\* What run() and flush() leave where.
WriterShape ==
    /\ wpc # "exec" => tx = <<>>
    /\ wpc = "flush" => batch # <<>>
    /\ wpc = "select" => Len(batch) < BatchMax
    /\ wpc = "off" => ch = <<>> /\ batch = <<>> /\ final = FALSE
    /\ final = TRUE => wpc \in {"flush", "exec", "ended"}

\* A request that waits was sent, waits once and has no answer; no request has
\* two answers.
WaitsOnce ==
    /\ \A i, j \in 1..Len(Unanswered) : Unanswered[i] = Unanswered[j] => i = j
    /\ \A i \in 1..Len(Unanswered) :
         Unanswered[i] \in Elems(sent) /\ done[Unanswered[i]] = <<>>
    /\ \A r \in Requests : done[r] # <<>> => r \in Elems(sent) /\ Len(done[r]) = 1

BWInv == BWTypeOK /\ WriterShape /\ WaitsOnce

BWNext ==
    \/ \E r \in Requests : Send(r)
    \/ Close \/ WriterStep \/ Open \/ Crash \/ Exit

LEMMA UnansweredType ==
    ASSUME BWTypeOK
    PROVE  Unanswered \in Seq(Requests)
<1>1. CASE wpc = "exec"
  BY <1>1, SuffixType, ConcatProperties DEF BWTypeOK, Unanswered
<1>2. CASE wpc # "exec"
  BY <1>2, ConcatProperties DEF BWTypeOK, Unanswered
<1> QED BY <1>1, <1>2

LEMMA BWInitially == BWInit => BWInv
<1> SUFFICES ASSUME BWInit
             PROVE  BWInv
  OBVIOUS
<1>1. BWTypeOK
  <2>1. <<>> \in Seq(Requests) /\ Len(<<>>) = 0 /\ <<>> \in Seq(Answers)
    BY EmptySeq
  <2>2. 0 <= ChanCap /\ 0 <= BatchMax
    BY CapPositive, BatchPositive
  <2>3. done \in [Requests -> Seq(Answers)] /\ gone \in [Requests -> {"no", "crash", "exit"}]
    BY <2>1 DEF BWInit
  <2> QED BY <2>1, <2>2, <2>3 DEF BWInit, BWTypeOK, WriterPC
<1>2. WriterShape
  BY DEF BWInit, WriterShape
<1>3. Unanswered = <<>>
  BY ConcatEmptySeq DEF BWInit, Unanswered
<1>4. WaitsOnce
  BY <1>3 DEF BWInit, WaitsOnce
<1> QED BY <1>1, <1>2, <1>4 DEF BWInv

\* Types.
LEMMA BWTypeStep == BWTypeOK /\ WriterShape /\ [BWNext]_bwVars => BWTypeOK' /\ WriterShape'
<1> SUFFICES ASSUME BWTypeOK, WriterShape, [BWNext]_bwVars
             PROVE  BWTypeOK' /\ WriterShape'
  OBVIOUS
<1>0. /\ ChanCap \in Nat /\ BatchMax \in Nat /\ BatchMax > 0
      /\ Len(ch) \in Nat /\ Len(batch) \in Nat
      /\ <<>> \in Seq(Requests) /\ Len(<<>>) = 0
  BY CapPositive, BatchPositive, LenProperties, EmptySeq DEF BWTypeOK
<1>1. ASSUME NEW r \in Requests, Send(r)
      PROVE  BWTypeOK' /\ WriterShape'
  <2>1. ch' \in Seq(Requests) /\ Len(ch') <= ChanCap /\ sent' \in Seq(Requests)
    BY <1>0, <1>1, AppendProperties DEF BWTypeOK, Send
  <2> QED BY <1>1, <2>1 DEF BWTypeOK, WriterShape, Send
<1>2. CASE Close
  BY <1>2 DEF BWTypeOK, WriterShape, Close
<1>3. ASSUME Collect
      PROVE  /\ ch' \in Seq(Requests) /\ Len(ch') <= ChanCap
             /\ batch' \in Seq(Requests) /\ Len(batch') = Len(batch) + 1
  BY <1>0, <1>3, HeadTailProperties, AppendProperties DEF BWTypeOK, Collect
<1>4. CASE Receive
  <2>1. Collect /\ wpc = "select" /\ wpc' = "drain" /\ Len(batch) < BatchMax
    BY <1>4 DEF Receive, WriterShape
  <2>2. Len(batch') <= BatchMax
    BY <1>0, <1>3, <2>1
  <2> QED BY <1>3, <2>1, <2>2 DEF BWTypeOK, WriterShape, Collect, WriterPC
<1>5. CASE Drain
  <2>1. Collect /\ wpc = "drain" /\ wpc' = "drain" /\ Len(batch) < BatchMax
    BY <1>5 DEF Drain
  <2>2. Len(batch') <= BatchMax
    BY <1>0, <1>3, <2>1
  <2> QED BY <1>3, <2>1, <2>2 DEF BWTypeOK, WriterShape, Collect, WriterPC
<1>6. CASE StopDrain
  <2>1. Collect /\ wpc = "stopping" /\ wpc' = "stopping"
    BY <1>6 DEF StopDrain
  <2> QED BY <1>3, <2>1 DEF BWTypeOK, WriterShape, Collect, WriterPC
<1>7. CASE Tick
  BY <1>7 DEF BWTypeOK, WriterShape, Tick, WriterPC
<1>8. CASE StopCase
  BY <1>8 DEF BWTypeOK, WriterShape, StopCase, WriterPC
<1>9. CASE Drained
  <2>1. Len(batch) >= BatchMax => batch # <<>>
    BY <1>0
  <2>2. ~(Len(batch) >= BatchMax) => Len(batch) < BatchMax
    BY <1>0
  <2> QED BY <1>9, <2>1, <2>2 DEF BWTypeOK, WriterShape, Drained, WriterPC
<1>10. CASE StopDrained
  BY <1>10 DEF BWTypeOK, WriterShape, StopDrained, WriterPC
<1>11. CASE Begin
  <2>1. 1 \in 1..Len(batch) + 1
    BY <1>0
  <2> QED BY <1>11, <2>1 DEF BWTypeOK, WriterShape, Begin, WriterPC
<1>12. ASSUME Flushed
       PROVE  /\ batch' = <<>> /\ wpc' \in {"ended", "select"}
              /\ final = TRUE => wpc' = "ended"
              /\ final = FALSE => wpc' = "select"
              /\ Len(batch') < BatchMax /\ Len(batch') <= BatchMax
  BY <1>0, <1>12 DEF Flushed
<1>13. CASE BeginFails
  <2>1. done' \in [Requests -> Seq(Answers)]
    <3>1. ASSUME NEW r \in Requests
          PROVE  Append(done[r], "err") \in Seq(Answers) /\ done[r] \in Seq(Answers)
      BY AppendProperties DEF BWTypeOK, Answers
    <3>2. done' = [r \in Requests |->
                     IF r \in Elems(batch) THEN Append(done[r], "err") ELSE done[r]]
      BY <1>13 DEF BeginFails
    <3> QED BY <3>1, <3>2
  <2>2. Flushed /\ UNCHANGED <<ch, stop, final, next, tx, db, sent, gone>> /\ tx = <<>>
    BY <1>13 DEF BeginFails, WriterShape
  <2> QED BY <1>0, <1>12, <2>1, <2>2 DEF BWTypeOK, WriterShape, WriterPC
<1>14. CASE Exec
  <2>1. next \in 1..Len(batch) /\ batch[next] \in Requests /\ wpc = "exec" /\ wpc' = "exec"
    <3>1. next \in 1..Len(batch)
      BY <1>0, <1>14 DEF BWTypeOK, Exec
    <3> QED BY <1>14, <3>1, ElementOfSeq DEF BWTypeOK, Exec
  <2>2. next' \in 1..Len(batch) + 1
    BY <1>0, <1>14, <2>1 DEF Exec
  <2>3. tx' \in Seq(Requests)
    <3>1. tx' = Append(tx, batch[next]) \/ tx' = tx
      BY <1>14, Zenon DEF Exec
    <3>2. tx \in Seq(Requests)
      BY DEF BWTypeOK
    <3> QED BY <2>1, <3>1, <3>2, AppendProperties
  <2>4. ASSUME NEW a \in Answers, Answer(batch[next], a)
        PROVE  done' \in [Requests -> Seq(Answers)]
    <3>1. Append(done[batch[next]], a) \in Seq(Answers)
      BY <2>1, AppendProperties DEF BWTypeOK
    <3> QED BY <2>4, <3>1 DEF BWTypeOK, Answer
  <2>5. done' \in [Requests -> Seq(Answers)]
    <3>1. "ok" \in Answers /\ "err" \in Answers
      BY DEF Answers
    <3>2. Answer(batch[next], "ok") \/ Answer(batch[next], "err")
      BY <1>14 DEF Exec
    <3> QED BY <2>4, <3>1, <3>2, Zenon
  <2>6. UNCHANGED <<ch, stop, final, batch, db, sent, gone>>
    BY <1>14 DEF Exec
  <2> QED BY <2>1, <2>2, <2>3, <2>5, <2>6 DEF BWTypeOK, WriterShape
<1>15. CASE Commit
  <2>1. db' \in Seq(Requests) /\ tx' = <<>>
    <3>1. (db' = db \o tx \/ db' = db) /\ tx' = <<>>
      BY <1>15, Zenon DEF Commit
    <3>2. db \in Seq(Requests) /\ tx \in Seq(Requests)
      BY DEF BWTypeOK
    <3> QED BY <3>1, <3>2, ConcatProperties
  <2>2. Flushed /\ UNCHANGED <<ch, stop, final, next, done, sent, gone>>
    BY <1>15 DEF Commit
  <2> QED BY <1>0, <1>12, <2>1, <2>2 DEF BWTypeOK, WriterShape, WriterPC
<1>16. CASE Open
  <2>1. batch = <<>>
    BY <1>16 DEF WriterShape, Open
  <2>2. Len(batch) < BatchMax /\ Len(batch) <= BatchMax
    BY <1>0, <2>1
  <2> QED BY <1>16, <2>2 DEF BWTypeOK, WriterShape, Open, WriterPC
<1>17. ASSUME NEW how \in {"crash", "exit"}, Die(how)
       PROVE  BWTypeOK' /\ WriterShape'
  <2>1. gone' \in [Requests -> {"no", "crash", "exit"}]
    BY <1>17 DEF BWTypeOK, Die
  <2>2. /\ ch' = <<>> /\ stop' = FALSE /\ wpc' = "off" /\ final' = FALSE
        /\ batch' = <<>> /\ tx' = <<>> /\ db' = db /\ done' = done /\ sent' = sent
    BY <1>17 DEF Die
  <2>3. Len(ch') <= ChanCap /\ Len(batch') <= BatchMax
    BY <1>0, <2>2
  <2> QED BY <1>0, <2>1, <2>2, <2>3 DEF BWTypeOK, WriterShape, WriterPC
<1>18. CASE UNCHANGED bwVars
  BY <1>18 DEF BWTypeOK, WriterShape, bwVars
<1> QED
  BY <1>1, <1>2, <1>4, <1>5, <1>6, <1>7, <1>8, <1>9, <1>10, <1>11, <1>13, <1>14,
     <1>15, <1>16, <1>17, <1>18 DEF BWNext, WriterStep, Crash, Exit

-----------------------------------------------------------------------------
\* What each step does to the requests that wait, to their answers and to the
\* transaction: the steps of SerialWriter, and steps that change none of them.

LEMMA SendStep ==
    ASSUME BWInv, NEW r \in Requests, Send(r)
    PROVE  /\ Unanswered' = Append(Unanswered, r)
           /\ Elems(sent') = Elems(sent) \union {r}
           /\ r \notin Elems(sent) /\ done' = done /\ tx' = tx /\ db' = db
<1>0. r \notin Elems(sent) /\ done' = done /\ tx' = tx /\ db' = db
  BY DEF Send
<1>1. Elems(sent') = Elems(sent) \union {r}
  BY ElemsAppend DEF BWInv, BWTypeOK, Send
<1>2. CASE wpc = "exec"
  <2>1. SubSeq(batch, next, Len(batch)) \in Seq(Requests) /\ ch \in Seq(Requests)
    BY <1>2, SuffixType DEF BWInv, BWTypeOK
  <2>2. Unanswered = SubSeq(batch, next, Len(batch)) \o ch
    BY <1>2 DEF Unanswered
  <2>3. Unanswered' = SubSeq(batch, next, Len(batch)) \o Append(ch, r)
    BY <1>2 DEF Unanswered, Send
  <2> QED BY <1>0, <1>1, <2>1, <2>2, <2>3, AppendRight, SMTT(40)
<1>3. CASE wpc # "exec"
  <2>1. Unanswered = batch \o ch /\ Unanswered' = batch \o Append(ch, r)
    BY <1>3 DEF Unanswered, Send
  <2>2. batch \in Seq(Requests) /\ ch \in Seq(Requests)
    BY DEF BWInv, BWTypeOK
  <2> QED BY <1>0, <1>1, <2>1, <2>2, AppendRight
<1> QED BY <1>2, <1>3

LEMMA CollectStep ==
    ASSUME BWInv, Collect, wpc # "exec", wpc' # "exec"
    PROVE  Unanswered' = Unanswered
<1>1. /\ batch \in Seq(Requests) /\ ch \in Seq(Requests) /\ ch # <<>>
      /\ Unanswered = batch \o ch /\ Unanswered' = Append(batch, Head(ch)) \o Tail(ch)
  BY DEF BWInv, BWTypeOK, Collect, Unanswered
<1> QED BY <1>1, MoveHead

LEMMA BeginStep ==
    ASSUME BWInv, Begin
    PROVE  Unanswered' = Unanswered
<1>1. /\ batch \in Seq(Requests)
      /\ Unanswered = batch \o ch /\ Unanswered' = SubSeq(batch, 1, Len(batch)) \o ch
  BY DEF BWInv, BWTypeOK, Begin, Unanswered
<1> QED BY <1>1, SubSeqFull

LEMMA BeginFailsStep ==
    ASSUME BWInv, BeginFails
    PROVE  /\ Unanswered = batch \o ch /\ batch # <<>>
           /\ Len(batch) \in 1..Len(Unanswered)
           /\ SubSeq(Unanswered, 1, Len(batch)) = batch
           /\ Unanswered' = ch /\ tx = <<>>
           /\ Unanswered' = SubSeq(Unanswered, Len(batch) + 1, Len(Unanswered))
<1>1. /\ batch \in Seq(Requests) /\ ch \in Seq(Requests) /\ batch # <<>> /\ tx = <<>>
      /\ Unanswered = batch \o ch
  BY DEF BWInv, BWTypeOK, WriterShape, BeginFails, Unanswered
<1>2. Unanswered' = <<>> \o ch
  BY DEF BeginFails, Flushed, Unanswered
<1> QED BY <1>1, <1>2, SplitConcat, ConcatEmptySeq

LEMMA ExecStep ==
    ASSUME BWInv, Exec
    PROVE  /\ Unanswered # <<>> /\ Head(Unanswered) = batch[next]
           /\ batch[next] \in Requests
           /\ Unanswered' = Tail(Unanswered)
<1>1. /\ batch \in Seq(Requests) /\ ch \in Seq(Requests)
      /\ Unanswered = SubSeq(batch, next, Len(batch)) \o ch
      /\ Unanswered' = SubSeq(batch, next + 1, Len(batch)) \o ch
  BY DEF BWInv, BWTypeOK, Exec, Unanswered
<1>2. next \in 1..Len(batch)
  <2> Len(batch) \in Nat
    BY <1>1, LenProperties
  <2> QED BY DEF BWInv, BWTypeOK, Exec
<1> QED BY <1>1, <1>2, SuffixHead

LEMMA CommitStep ==
    ASSUME BWInv, Commit
    PROVE  Unanswered' = Unanswered
<1>1. Len(batch) \in Nat /\ next \in Nat /\ ch \in Seq(Requests)
  BY LenProperties DEF BWInv, BWTypeOK, Commit
<1>2. SubSeq(batch, next, Len(batch)) = <<>>
  BY <1>1, SubSeqEmpty DEF Commit
<1>3. Unanswered = <<>> \o ch
  BY <1>2 DEF Commit, Unanswered
<1>4. Unanswered' = <<>> \o ch
  BY DEF Commit, Flushed, Unanswered
<1> QED BY <1>3, <1>4

LEMMA DieStep ==
    ASSUME NEW how, Die(how)
    PROVE  Unanswered' = <<>> /\ tx' = <<>> /\ done' = done /\ db' = db /\ sent' = sent
<1>1. Unanswered' = <<>> \o <<>>
  BY DEF Die, Unanswered
<1> QED BY <1>1, ConcatEmptySeq DEF Die

\* The steps of run() between two batches.
LEMMA QuietStep ==
    ASSUME BWInv,
           \/ Close \/ Receive \/ Tick \/ StopCase \/ Drain \/ Drained \/ StopDrain
           \/ StopDrained \/ Begin \/ Open \/ UNCHANGED bwVars
    PROVE  Unanswered' = Unanswered /\ UNCHANGED <<tx, db, done, sent>>
<1>1. CASE Receive \/ Drain \/ StopDrain
  <2>1. Collect /\ wpc # "exec" /\ wpc' # "exec"
    BY <1>1 DEF Receive, Drain, StopDrain
  <2> QED BY <2>1, CollectStep DEF Collect
<1>2. CASE Begin
  BY <1>2, BeginStep DEF Begin
<1>3. CASE Close \/ UNCHANGED bwVars
  BY <1>3 DEF Close, Unanswered, bwVars
<1>4. CASE Tick \/ StopCase \/ Drained \/ StopDrained \/ Open
  <2>1. wpc # "exec" /\ wpc' # "exec"
    BY <1>4 DEF Tick, StopCase, Drained, StopDrained, Open
  <2> QED BY <1>4, <2>1 DEF Unanswered, Tick, StopCase, Drained, StopDrained, Open
<1> QED BY <1>1, <1>2, <1>3, <1>4

LEMMA WaitsOnceStep == BWInv /\ [BWNext]_bwVars => WaitsOnce'
<1> SUFFICES ASSUME BWInv, [BWNext]_bwVars
             PROVE  WaitsOnce'
  OBVIOUS
<1> DEFINE U == Unanswered
<1>0. /\ U \in Seq(Requests) /\ Len(U) \in Nat /\ \A i \in 1..Len(U) : U[i] \in Requests
      /\ \A i, j \in 1..Len(U) : U[i] = U[j] => i = j
      /\ \A i \in 1..Len(U) : U[i] \in Elems(sent) /\ done[U[i]] = <<>>
      /\ \A r \in Requests : done[r] # <<>> => r \in Elems(sent) /\ Len(done[r]) = 1
      /\ done \in [Requests -> Seq(Answers)]
  <2>1. U \in Seq(Requests)
    BY UnansweredType DEF BWInv
  <2>2. Len(U) \in Nat /\ \A i \in 1..Len(U) : U[i] \in Requests
    BY <2>1, LenProperties, ElementOfSeq
  <2> QED BY <2>1, <2>2 DEF BWInv, WaitsOnce, BWTypeOK
<1> HIDE DEF U
<1>1. ASSUME NEW r \in Requests, Send(r)
      PROVE  WaitsOnce'
  <2>1. /\ U' = Append(U, r) /\ Elems(sent') = Elems(sent) \union {r}
        /\ r \notin Elems(sent) /\ done' = done
    BY <1>1, SendStep DEF U
  <2>2. /\ Len(U') = Len(U) + 1 /\ U'[Len(U) + 1] = r
        /\ \A i \in 1..Len(U) : U'[i] = U[i]
    BY <1>0, <2>1, AppendProperties
  <2>3. done[r] = <<>>
    BY <1>0, <2>1
  <2>4. \A i \in 1..Len(U') : i \in 1..Len(U) \/ i = Len(U) + 1
    BY <1>0, <2>2
  <2>5. ASSUME NEW i \in 1..Len(U'), NEW j \in 1..Len(U'), U'[i] = U'[j]
        PROVE  i = j
    BY <1>0, <2>1, <2>2, <2>4, <2>5
  <2>6. ASSUME NEW i \in 1..Len(U')
        PROVE  U'[i] \in Elems(sent') /\ done'[U'[i]] = <<>>
    BY <1>0, <2>1, <2>2, <2>3, <2>4
  <2>7. \A q \in Requests : done'[q] # <<>> => q \in Elems(sent') /\ Len(done'[q]) = 1
    BY <1>0, <2>1
  <2> QED BY <2>5, <2>6, <2>7 DEF WaitsOnce, U
<1>2. ASSUME U' = U /\ done' = done /\ sent' = sent
      PROVE  WaitsOnce'
  BY <1>0, <1>2 DEF WaitsOnce, U
<1>3. CASE \/ Close \/ Receive \/ Tick \/ StopCase \/ Drain \/ Drained \/ StopDrain
           \/ StopDrained \/ Begin \/ Open \/ UNCHANGED bwVars
  BY <1>2, <1>3, QuietStep DEF U
<1>4. CASE BeginFails
  <2>1. U = batch \o ch /\ U' = ch /\ batch \in Seq(Requests) /\ ch \in Seq(Requests)
    BY <1>4, BeginFailsStep DEF U, BWInv, BWTypeOK
  <2>2. /\ Len(U) = Len(batch) + Len(ch) /\ Len(batch) \in Nat /\ Len(ch) \in Nat
        /\ \A i \in 1..Len(batch) : U[i] = batch[i]
        /\ \A i \in 1..Len(ch) : U[Len(batch) + i] = ch[i]
    <3>1. /\ Len(U) = Len(batch) + Len(ch) /\ Len(batch) \in Nat /\ Len(ch) \in Nat
          /\ \A i \in 1..Len(batch) + Len(ch) :
               U[i] = IF i <= Len(batch) THEN batch[i] ELSE ch[i - Len(batch)]
      BY <2>1, ConcatProperties, LenProperties
    <3>2. ASSUME NEW i \in 1..Len(batch)
          PROVE  U[i] = batch[i]
      BY <3>1
    <3>3. ASSUME NEW i \in 1..Len(ch)
          PROVE  U[Len(batch) + i] = ch[i]
      <4>1. /\ Len(batch) + i \in 1..Len(batch) + Len(ch)
            /\ ~(Len(batch) + i <= Len(batch)) /\ Len(batch) + i - Len(batch) = i
        BY <3>1
      <4> QED BY <3>1, <4>1
    <3> QED BY <3>1, <3>2, <3>3
  <2>3. /\ sent' = sent
        /\ \A r \in Requests :
             done'[r] = IF r \in Elems(batch) THEN Append(done[r], "err") ELSE done[r]
    BY <1>4 DEF BeginFails
  <2>4. ASSUME NEW r \in Elems(batch)
        PROVE  r \in Elems(sent) /\ done[r] = <<>>
    <3>1. PICK i \in 1..Len(batch) : batch[i] = r
      BY ElemsMember
    <3>2. i \in 1..Len(U) /\ U[i] = r
      BY <2>2, <3>1
    <3> QED BY <1>0, <3>2, Zenon
  <2>5. ASSUME NEW i \in 1..Len(ch)
        PROVE  /\ Len(batch) + i \in 1..Len(U) /\ U[Len(batch) + i] = ch[i]
               /\ \A j \in 1..Len(batch) : j \in 1..Len(U) /\ j # Len(batch) + i
    BY <2>2
  <2>6. ASSUME NEW i \in 1..Len(ch)
        PROVE  ch[i] \in Requests /\ ch[i] \in Elems(sent) /\ done[ch[i]] = <<>> /\ ch[i] \notin Elems(batch)
    <3>1. ch[i] \in Requests /\ ch[i] \in Elems(sent) /\ done[ch[i]] = <<>>
      BY <1>0, <2>5, ZenonT(40)
    <3>2. ASSUME NEW j \in 1..Len(batch)
          PROVE  batch[j] # ch[i]
      <4>1. U[j] = batch[j] /\ j \in 1..Len(U) /\ j # Len(batch) + i
        BY <2>2, <2>5
      <4>2. U[Len(batch) + i] = ch[i] /\ Len(batch) + i \in 1..Len(U)
        BY <2>5
      <4> QED BY <1>0, <4>1, <4>2, Zenon
    <3> QED BY <3>1, <3>2, ElemsMember
  <2>7. ASSUME NEW i \in 1..Len(ch), NEW j \in 1..Len(ch), ch[i] = ch[j]
        PROVE  i = j
    <3>1. Len(batch) + i = Len(batch) + j
      BY <1>0, <2>5, <2>7, ZenonT(60)
    <3> QED BY <2>2, <3>1
  <2>8. ASSUME NEW i \in 1..Len(ch)
        PROVE  ch[i] \in Elems(sent') /\ done'[ch[i]] = <<>>
    BY <2>3, <2>6, Zenon
  <2>9. ASSUME NEW r \in Requests, done'[r] # <<>>
        PROVE  r \in Elems(sent') /\ Len(done'[r]) = 1
    <3>1. CASE r \in Elems(batch)
      <4>1. Len(Append(<<>>, "err")) = 1
        OBVIOUS
      <4> QED BY <2>3, <2>4, <3>1, <4>1
    <3>2. CASE r \notin Elems(batch)
      BY <1>0, <2>3, <2>9, <3>2
    <3> QED BY <3>1, <3>2
  <2> QED BY <2>1, <2>7, <2>8, <2>9 DEF WaitsOnce, U
<1>5. CASE Exec
  <2>1. U # <<>> /\ Head(U) = batch[next] /\ batch[next] \in Requests /\ U' = Tail(U) /\ sent' = sent
    BY <1>5, ExecStep DEF U, Exec
  <2>2. PICK a \in Answers : done' = [done EXCEPT ![batch[next]] = Append(@, a)]
    BY <1>5 DEF Exec, Answer, Answers
  <2>3. /\ Len(U') = Len(U) - 1 /\ \A i \in 1..Len(U') : U'[i] = U[i + 1]
        /\ Len(U) > 0 /\ batch[next] = U[1]
    BY <1>0, <2>1, HeadTailProperties, EmptySeq
  <2>4. \A i \in 1..Len(U') : i + 1 \in 1..Len(U) /\ i + 1 # 1
    BY <1>0, <2>3
  <2>5. 1 \in 1..Len(U)
    BY <1>0, <2>3
  <2>6. done[batch[next]] = <<>> /\ batch[next] \in Elems(sent)
    BY <1>0, <2>3, <2>5
  <2>7. ASSUME NEW i \in 1..Len(U'), NEW j \in 1..Len(U'), U'[i] = U'[j]
        PROVE  i = j
    <3>1. i + 1 = j + 1
      BY <1>0, <2>3, <2>4, <2>7, ZenonT(60)
    <3> QED BY <3>1
  <2>8. ASSUME NEW i \in 1..Len(U')
        PROVE  U'[i] \in Elems(sent') /\ done'[U'[i]] = <<>>
    <3>1. U'[i] = U[i + 1] /\ U[i + 1] # batch[next] /\ U[i + 1] \in Requests
          /\ U[i + 1] \in Elems(sent) /\ done[U[i + 1]] = <<>>
      BY <1>0, <2>3, <2>4, <2>5
    <3> QED BY <1>0, <2>1, <2>2, <3>1
  <2>9. ASSUME NEW r \in Requests, done'[r] # <<>>
        PROVE  r \in Elems(sent') /\ Len(done'[r]) = 1
    <3>1. CASE r = batch[next]
      <4>1. Len(Append(<<>>, a)) = 1
        OBVIOUS
      <4>2. done'[r] = Append(<<>>, a)
        BY <1>0, <2>2, <2>6, <3>1
      <4> QED BY <2>1, <2>6, <3>1, <4>1, <4>2
    <3>2. CASE r # batch[next]
      BY <1>0, <2>1, <2>2, <2>9, <3>2
    <3> QED BY <3>1, <3>2
  <2> QED BY <2>7, <2>8, <2>9 DEF WaitsOnce, U
<1>6. CASE Commit
  BY <1>2, <1>6, CommitStep DEF U, Commit
<1>7. CASE Crash \/ Exit
  <2>1. U' = <<>> /\ done' = done /\ sent' = sent
    BY <1>7, DieStep DEF U, Crash, Exit
  <2> QED BY <1>0, <2>1 DEF WaitsOnce, U
<1> QED
  BY <1>1, <1>3, <1>4, <1>5, <1>6, <1>7 DEF BWNext, WriterStep

LEMMA BWPreserved == BWInv /\ [BWNext]_bwVars => BWInv'
  BY BWTypeStep, WaitsOnceStep DEF BWInv

LEMMA ToldIs ==
    ASSUME BWInv, NEW r \in Requests
    PROVE  /\ done[r] = <<>> => Told[r] = "none"
           /\ \A a : done[r] = <<a>> => Told[r] = a
<1>1. Told[r] = IF done[r] = <<>> THEN "none"
                ELSE IF Len(done[r]) = 1 THEN done[r][1] ELSE "twice"
  BY DEF Told
<1>2. \A a : <<a>> # <<>> /\ Len(<<a>>) = 1 /\ <<a>>[1] = a
  OBVIOUS
<1> QED BY <1>1, <1>2

LEMMA SerialInitially == BWInit => Serial!SerialInit
<1> SUFFICES ASSUME BWInit
             PROVE  Serial!SerialInit
  OBVIOUS
<1>1. Unanswered = <<>>
  BY ConcatEmptySeq DEF BWInit, Unanswered
<1>2. Told = [r \in Requests |-> "none"]
  BY DEF BWInit, Told
<1> QED BY <1>1, <1>2 DEF BWInit, Serial!SerialInit

LEMMA SerialExec ==
    ASSUME BWInv, Exec
    PROVE  Serial!SerialNext
<1> DEFINE h == batch[next]
<1>1. /\ Unanswered # <<>> /\ Head(Unanswered) = h /\ h \in Requests
      /\ Unanswered' = Tail(Unanswered)
  BY ExecStep
<1>2. done[h] = <<>>
  <2>1. Unanswered \in Seq(Requests)
    BY UnansweredType DEF BWInv
  <2>2. 1 \in 1..Len(Unanswered) /\ Unanswered[1] = h
    BY <1>1, <2>1, EmptySeq
  <2> QED BY <2>2 DEF BWInv, WaitsOnce
<1>3. PICK a \in {"ok", "err"} :
         /\ done' = [done EXCEPT ![h] = Append(@, a)]
         /\ tx' = IF a = "ok" THEN Append(tx, h) ELSE tx
  BY DEF Exec, Answer
<1> HIDE DEF h
<1>4. done \in [Requests -> Seq(Answers)]
  BY DEF BWInv, BWTypeOK
<1>5. Told' = [Told EXCEPT ![h] = a]
  <2>1. done'[h] = <<a>>
    BY <1>1, <1>2, <1>3, <1>4
  <2>2. \A r \in Requests : r # h => done'[r] = done[r]
    BY <1>3, <1>4
  <2>3. <<a>> # <<>> /\ Len(<<a>>) = 1 /\ <<a>>[1] = a
    OBVIOUS
  <2>4. Told' = [r \in Requests |-> IF r = h THEN a ELSE Told[r]]
    BY <2>1, <2>2, <2>3 DEF Told
  <2>5. Told = [r \in Requests |-> Told[r]]
    BY DEF Told
  <2> QED BY <2>4, <2>5
<1>6. db' = db
  BY DEF Exec
<1>7. Serial!Reply(a)
  BY <1>1, <1>3, <1>5, <1>6 DEF Serial!Reply
<1> QED BY <1>7 DEF Serial!SerialNext

LEMMA SerialBeginFails ==
    ASSUME BWInv, BeginFails
    PROVE  Serial!SerialNext
<1>1. /\ Unanswered = batch \o ch
      /\ Len(batch) \in 1..Len(Unanswered)
      /\ SubSeq(Unanswered, 1, Len(batch)) = batch
      /\ tx = <<>>
      /\ Unanswered' = SubSeq(Unanswered, Len(batch) + 1, Len(Unanswered))
  BY BeginFailsStep
<1>2. /\ tx' = tx /\ db' = db
      /\ done' = [r \in Requests |->
                    IF r \in Elems(batch) THEN Append(done[r], "err") ELSE done[r]]
  BY DEF BeginFails
<1>3. ASSUME NEW r \in Requests
      PROVE  Serial!Member(r, batch) <=> r \in Elems(batch)
  BY ElemsMember DEF Serial!Member
<1>4. ASSUME NEW r \in Requests, r \in Elems(batch)
      PROVE  done'[r] = <<"err">>
  <2>1. PICK i \in 1..Len(batch) : batch[i] = r
    BY <1>4, ElemsMember
  <2>2. batch \in Seq(Requests) /\ ch \in Seq(Requests)
    BY DEF BWInv, BWTypeOK
  <2>3. i \in 1..Len(Unanswered) /\ Unanswered[i] = r
    BY <1>1, <2>1, <2>2, ConcatProperties, LenProperties
  <2>4. done[r] = <<>>
    BY <2>3 DEF BWInv, WaitsOnce
  <2>5. done'[r] = Append(done[r], "err")
    BY <1>2, <1>4
  <2>6. Append(<<>>, "err") = <<"err">>
    OBVIOUS
  <2> QED BY <2>4, <2>5, <2>6
<1>5. <<"err">> # <<>> /\ Len(<<"err">>) = 1 /\ <<"err">>[1] = "err"
  OBVIOUS
<1>6. Told' = [r \in Requests |-> IF r \in Elems(batch) THEN "err" ELSE Told[r]]
  BY <1>2, <1>4, <1>5 DEF Told
<1>7. Told' = [r \in Requests |-> IF Serial!Member(r, SubSeq(Unanswered, 1, Len(batch)))
                                 THEN "err" ELSE Told[r]]
  BY <1>1, <1>3, <1>6
<1>8. Serial!Refuse(Len(batch))
  BY <1>1, <1>2, <1>7 DEF Serial!Refuse
<1> QED BY <1>1, <1>8 DEF Serial!SerialNext

\* Every step of the batch writer is a step of SerialWriter or changes nothing
\* that SerialWriter can see.
LEMMA SerialStep == BWInv /\ [BWNext]_bwVars => [Serial!SerialNext]_(Serial!serialVars)
<1> SUFFICES ASSUME BWInv, [BWNext]_bwVars
             PROVE  [Serial!SerialNext]_(Serial!serialVars)
  OBVIOUS
<1>0. done' = done => Told' = Told
  BY DEF Told
<1>1. ASSUME NEW r \in Requests, Send(r)
      PROVE  Serial!SerialNext
  <2>1. /\ Unanswered' = Append(Unanswered, r) /\ r \notin Elems(sent)
        /\ done' = done /\ tx' = tx /\ db' = db
    BY <1>1, SendStep
  <2>2. done[r] = <<>>
    BY <2>1 DEF BWInv, WaitsOnce
  <2>3. Told[r] = "none"
    BY <2>2, ToldIs
  <2>4. ~Serial!Member(r, Unanswered)
    BY <2>1 DEF Serial!Member, BWInv, WaitsOnce
  <2>5. Serial!Submit(r)
    BY <1>0, <2>1, <2>3, <2>4 DEF Serial!Submit
  <2> QED BY <2>5 DEF Serial!SerialNext
<1>2. CASE \/ Close \/ Receive \/ Tick \/ StopCase \/ Drain \/ Drained \/ StopDrain
           \/ StopDrained \/ Begin \/ Open \/ UNCHANGED bwVars
  BY <1>0, <1>2, QuietStep DEF Serial!serialVars
<1>3. CASE BeginFails
  BY <1>3, SerialBeginFails
<1>4. CASE Exec
  BY <1>4, SerialExec
<1>5. CASE Commit
  <2>1. /\ Unanswered' = Unanswered /\ done' = done /\ tx' = <<>>
        /\ db' = db \o tx \/ db' = db
    BY <1>5, CommitStep DEF Commit
  <2>2. CASE tx # <<>>
    <3>1. Serial!Settle
      BY <1>0, <2>1, <2>2 DEF Serial!Settle
    <3> QED BY <3>1 DEF Serial!SerialNext
  <2>3. CASE tx = <<>>
    <3>1. db' = db
      BY <2>1, <2>3, ConcatEmptySeq DEF BWInv, BWTypeOK
    <3> QED BY <1>0, <2>1, <2>3, <3>1 DEF Serial!serialVars
  <2> QED BY <2>2, <2>3
<1>6. CASE Crash \/ Exit
  <2>1. Unanswered' = <<>> /\ tx' = <<>> /\ done' = done /\ db' = db
    BY <1>6, DieStep DEF Crash, Exit
  <2>2. Serial!End
    BY <1>0, <2>1 DEF Serial!End
  <2> QED BY <2>2 DEF Serial!SerialNext
<1> QED
  BY <1>1, <1>2, <1>3, <1>4, <1>5, <1>6 DEF BWNext, WriterStep

-----------------------------------------------------------------------------
\* The store: both parts, and that the writer is there exactly when Migrate has
\* succeeded in this life of the process.

WriterIffUp == wpc # "off" <=> mpc = "up"

StoreInv == MigInv /\ BWInv /\ WriterIffUp

LEMMA StoreSteps ==
    ASSUME StoreInv, [StoreNext]_storeVars
    PROVE  [MigNext]_migVars /\ [BWNext]_bwVars /\ WriterIffUp'
<1>1. CASE NewSQLiteStore
  BY <1>1 DEF NewSQLiteStore, MigNext, BWNext, WriterIffUp, Migrated, Open
<1>2. CASE Migrating
  <2>1. mpc # "up" /\ mpc' # "up"
    BY <1>2 DEF Migrating, MigrateStep, StartProcess, ReadVersion, Apply, Duplicate,
                StatementFails, Pending
  <2>2. wpc' = wpc
    BY <1>2 DEF Migrating, bwVars
  <2> QED BY <1>2, <2>1, <2>2 DEF Migrating, MigNext, StoreInv, WriterIffUp
<1>3. CASE Serving
  <2>1. wpc # "off" /\ wpc' # "off"
    BY <1>3 DEF Serving, Send, Close, WriterStep, Receive, Tick, StopCase, Drain, Drained,
                StopDrain, StopDrained, Begin, BeginFails, Exec, Commit, Flushed
  <2>2. mpc' = mpc
    BY <1>3 DEF Serving, migVars
  <2> QED BY <1>3, <2>1, <2>2 DEF Serving, BWNext, StoreInv, WriterIffUp
<1>4. CASE Killed
  BY <1>4 DEF Killed, Vanish, Crash, Die, MigNext, BWNext, StoreInv, WriterIffUp, bwVars
<1>5. CASE Closed
  BY <1>5 DEF Closed, Vanish, Exit, Die, MigNext, BWNext, StoreInv, WriterIffUp
<1>6. CASE Over \/ UNCHANGED storeVars
  BY <1>6 DEF Over, storeVars, migVars, bwVars, StoreInv, WriterIffUp
<1> QED
  BY <1>1, <1>2, <1>3, <1>4, <1>5, <1>6 DEF StoreNext

LEMMA StoreInductive == StoreSpec => []StoreInv
<1>1. StoreInit => StoreInv
  BY MigInitially, BWInitially DEF StoreInit, StoreInv, WriterIffUp, MigInit, BWInit
<1>2. StoreInv /\ [StoreNext]_storeVars => StoreInv'
  BY StoreSteps, MigPreserved, BWPreserved DEF StoreInv
<1> QED BY <1>1, <1>2, PTL DEF StoreSpec

\* Every variable of the store keeps its type, through migrations, batches,
\* failures and restarts; a batch never grows past batchMaxSize except in the
\* stop branch of run, and the channel never past its capacity.
THEOREM StoreTypeCorrect == StoreSpec => []StoreTypeOK
<1>1. StoreInv => StoreTypeOK
  BY DEF StoreInv, MigInv, BWInv, StoreTypeOK
<1> QED BY <1>1, StoreInductive, PTL

\* No write meets a schema that lacks a column its SQL names: however many
\* migrations were cut short before, NewSQLiteStore starts the writer on a
\* complete schema or not at all.
THEOREM StoreWritesMeetTheirColumns == StoreSpec => []WritesMeetTheirColumns
<1>1. StoreInv => WritesMeetTheirColumns
  BY DEF StoreInv, MigInv, AppliedSoFar, WriterIffUp, WritesMeetTheirColumns
<1> QED BY <1>1, StoreInductive, PTL

\* Migrate can be called on every start: as long as none was cut short before, it
\* never meets a column that is already there, from whatever release's database
\* and after however many starts.
THEOREM StoreMigrateRepeatable == StoreSpec => []RepeatableUnlessInterrupted
<1>1. StoreInv => RepeatableUnlessInterrupted
  BY DEF StoreInv, MigInv, MigTypeOK, NothingElse, RepeatableUnlessInterrupted
<1> QED BY <1>1, StoreInductive, PTL

\* Channel, batches and transactions implement SerialWriter: requests are
\* answered in the order of their arrival, each at most once, and what is
\* durable is what was answered with success, in that order, batch by batch.
THEOREM StoreWritesAreSerial == StoreSpec => WritesAreSerial
<1>1. StoreInit => Serial!SerialInit
  BY SerialInitially DEF StoreInit
<1>2. StoreInv /\ [StoreNext]_storeVars => [Serial!SerialNext]_(Serial!serialVars)
  BY StoreSteps, SerialStep DEF StoreInv
<1> QED BY <1>1, <1>2, StoreInductive, PTL DEF StoreSpec, WritesAreSerial, Serial!SerialSpec
=============================================================================
