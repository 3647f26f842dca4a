------------------------- MODULE MongoStorage_proofs -------------------------
(***************************************************************************)
(* Proofs about MongoStorage for every set of processes, goroutines,       *)
(* sections, keys and values: the inductive invariant IInv and the safety  *)
(* properties that follow from it.                                         *)
(***************************************************************************)
EXTENDS MongoStorage, TLAPS

(* What the place in main() says of the watcher and of Saves.               *)
LifeCycle ==
  \A p \in Procs :
    /\ watch[p] = "on" => phase[p] = "started"
    /\ phase[p] \in {"down", "loaded"} =>
         ~used[p] /\ LockFree(p) /\ watch[p] = "off" /\ stream[p] = <<>>
    /\ used[p] => missed[p] = {}

(* No event of s is pending; the newest pending event of s announces d.     *)
NoneOf(evs, s) == \A i \in DOMAIN evs : evs[i].id # s
Newest(evs, s, d) ==
  \A i \in DOMAIN evs :
    evs[i].id = s /\ (\A j \in DOMAIN evs : evs[j].id = s => j <= i) =>
      evs[i].doc = d

(* The copy of a process that watches, or is about to, and the events on    *)
(* their way to it.                                                         *)
Tracks ==
  \A p \in Procs : watch[p] = "on" \/ phase[p] = "loaded" =>
    \A s \in Sections :
      /\ NoneOf(stream[p], s) =>
           s \in edited[p] \cup missed[p] \/ cache[p][s] = Decrypt(p, db[s])
      /\ Newest(stream[p], s, db[s])

(* A Save still has to upsert what is both in memory and listed, and only   *)
(* what is in memory.                                                       *)
SaveShape ==
  \A t \in Threads : save[t].active =>
    LET here == Present(cache[ProcOf[t]]) IN
    /\ save[t].todo \subseteq here
    /\ save[t].existing \cap here \subseteq save[t].todo

IInv == /\ TypeOK
        /\ LifeCycle
        /\ Tracks
        /\ SaveShape
        /\ SaveWritesTheCopy
        /\ CaughtUpSaveKeepsOthers

-----------------------------------------------------------------------------
(* Facts about partial maps and about encryption.                           *)

(* A function is a partial map from S to T when its domain is in S and its  *)
(* values in T.                                                             *)
LEMMA PartialFnFacts ==
  ASSUME NEW S, NEW T
  PROVE  /\ \A D \in SUBSET S : \A f \in [D -> T] : f \in PartialFn(S, T)
         /\ \A f \in PartialFn(S, T) :
              DOMAIN f \in SUBSET S /\ f \in [DOMAIN f -> T]
  BY DEF PartialFn

(* Encrypting a section gives a document.                                   *)
LEMMA EncryptType ==
  ASSUME NEW p \in Procs, NEW sec \in Section \cup {Absent}
  PROVE  /\ Encrypt(p, sec) \in Doc \cup {Absent}
         /\ Encrypt(p, sec) = Absent <=> sec = Absent
<1>1. CASE sec = Absent
  BY <1>1 DEF Encrypt
<1>2. CASE sec # Absent
  <2>1. sec \in Section
    BY <1>2
  <2>2. DOMAIN sec \in SUBSET Keys /\ sec \in [DOMAIN sec -> Values]
    BY <2>1, PartialFnFacts DEF Section
  <2>3. \A k \in DOMAIN sec : [enc |-> EncKey[p], val |-> sec[k]] \in Cipher
    BY <2>2, ConstantsAssumption DEF Cipher
  <2>4. Encrypt(p, sec) \in [DOMAIN sec -> Cipher]
    BY <1>2, <2>3 DEF Encrypt
  <2>5. Encrypt(p, sec) \in Doc
    BY <2>2, <2>4, PartialFnFacts DEF Doc
  <2> QED
    BY <1>2, <2>5, ConstantsAssumption
<1> QED
  BY <1>1, <1>2

(* Decrypting a document gives a section, whatever keys its fields were     *)
(* encrypted under.                                                         *)
LEMMA DecryptType ==
  ASSUME NEW p \in Procs, NEW doc \in Doc \cup {Absent}
  PROVE  /\ Decrypt(p, doc) \in Section \cup {Absent}
         /\ Decrypt(p, doc) = Absent <=> doc = Absent
<1>1. CASE doc = Absent
  BY <1>1 DEF Decrypt
<1>2. CASE doc # Absent
  <2>1. DOMAIN doc \in SUBSET Keys /\ doc \in [DOMAIN doc -> Cipher]
    BY <1>2, PartialFnFacts DEF Doc
  <2>2. Readable(p, doc) \in SUBSET Keys
    BY <2>1 DEF Readable
  <2>3. \A k \in Readable(p, doc) : doc[k].val \in Values
    BY <2>1 DEF Readable, Cipher
  <2>4. Decrypt(p, doc) \in [Readable(p, doc) -> Values]
    BY <1>2, <2>3 DEF Decrypt
  <2>5. Decrypt(p, doc) \in Section
    BY <2>2, <2>4, PartialFnFacts DEF Section
  <2> QED
    BY <1>2, <2>5, ConstantsAssumption
<1> QED
  BY <1>1, <1>2

(* A process reads back what it wrote.                                      *)
LEMMA DecryptEncrypt ==
  ASSUME NEW p \in Procs, NEW sec \in Section \cup {Absent}
  PROVE  Decrypt(p, Encrypt(p, sec)) = sec
<1>1. CASE sec = Absent
  BY <1>1 DEF Encrypt, Decrypt
<1>2. CASE sec # Absent
  <2>1. sec \in [DOMAIN sec -> Values]
    BY <1>2, PartialFnFacts DEF Section
  <2> DEFINE doc == [k \in DOMAIN sec |-> [enc |-> EncKey[p], val |-> sec[k]]]
  <2>2. Encrypt(p, sec) = doc /\ doc # Absent
    BY <1>2, EncryptType DEF Encrypt
  <2>3. Readable(p, doc) = DOMAIN sec
    BY DEF Readable
  <2>4. Decrypt(p, doc) = [k \in DOMAIN sec |-> doc[k].val]
    BY <2>2, <2>3 DEF Decrypt
  <2>5. Decrypt(p, doc) = [k \in DOMAIN sec |-> sec[k]]
    BY <2>4
  <2> QED
    BY <2>1, <2>2, <2>5
<1> QED
  BY <1>1, <1>2

-----------------------------------------------------------------------------
(* Type correctness.                                                        *)

(* Down keeps the types.                                                    *)
LEMMA DownType ==
  ASSUME TypeOK, NEW p \in Procs, Down(p), UNCHANGED <<db, count>>
  PROVE  TypeOK'
<1>1. Idle \in SaveRec
  BY DEF Idle, SaveRec
<1>2. save' \in [Threads -> SaveRec]
  BY <1>1 DEF Down, TypeOK
<1>3. phase' \in [Procs -> Phases]
  BY DEF Down, TypeOK, Phases, Running
<1>4. watch' \in [Procs -> Watches]
  BY DEF Down, TypeOK, Watches
<1>5. stream' \in [Procs -> Seq(Event)]
  BY DEF Down, TypeOK
<1> QED
  BY <1>2, <1>3, <1>4, <1>5 DEF Down, TypeOK

(* The counters keep their types.                                           *)
LEMMA CountType ==
  ASSUME count \in Count
  PROVE  /\ count.edits < MaxEdits => [count EXCEPT !.edits = @ + 1] \in Count
         /\ [count EXCEPT !.writes = @ + 1] \in Count
<1>1. MaxEdits \in Nat
  BY ConstantsAssumption
<1>2. count.edits \in 0..MaxEdits /\ count.writes \in Nat
  BY DEF Count
<1>3. count.edits < MaxEdits => count.edits + 1 \in 0..MaxEdits
  BY <1>1, <1>2
<1>4. count.writes + 1 \in Nat
  BY <1>2
<1> QED
  BY <1>3, <1>4 DEF Count

(* A write to the collection keeps the types.                               *)
LEMMA WriteType ==
  ASSUME TypeOK, NEW t \in Threads, NEW s \in Sections,
         NEW doc \in Doc \cup {Absent}, NEW rec \in SaveRec,
         Write(t, s, doc, rec)
  PROVE  TypeOK'
<1> DEFINE p == ProcOf[t]
           e == [id |-> s, doc |-> doc, by |-> p]
<1>1. p \in Procs
  BY ConstantsAssumption
<1>2. e \in Event
  BY <1>1 DEF Event
<1>3. db' \in [Sections -> Doc \cup {Absent}]
  BY DEF Write, TypeOK
<1>4. stream' \in [Procs -> Seq(Event)]
  <2>1. \A q \in Procs : Append(stream[q], e) \in Seq(Event)
    BY <1>2 DEF TypeOK
  <2> QED
    BY <2>1 DEF Write, TypeOK
<1>5. missed' \in [Procs -> SUBSET Sections]
  BY DEF Write, TypeOK
<1>6. save' \in [Threads -> SaveRec]
  <2>1. \A u \in Threads :
          [save[u] EXCEPT !.touched = @ \cup {s}] \in SaveRec
    BY DEF TypeOK, SaveRec
  <2> QED
    BY <2>1 DEF Write, TypeOK
<1>7. count' \in Count
  BY CountType DEF Write, TypeOK
<1> QED
  BY <1>3, <1>4, <1>5, <1>6, <1>7 DEF Write, TypeOK

(* An edit that stores a section, or removes one, keeps the types.          *)
LEMMA EditType ==
  ASSUME TypeOK, NEW p \in Procs, NEW s \in Sections,
         NEW sec \in Section \cup {Absent}, Edit(p, s, sec)
  PROVE  TypeOK'
<1>1. cache' \in [Procs -> [Sections -> Section \cup {Absent}]]
  BY DEF Edit, TypeOK
<1>2. count' \in Count
  BY CountType DEF Edit, TypeOK
<1>3. edited' \in [Procs -> SUBSET Sections]
  BY DEF Edit, TypeOK
<1> QED
  BY <1>1, <1>2, <1>3 DEF Edit, TypeOK

(* ReadAll fills the copy with sections.                                    *)
LEMMA ReadAllType ==
  ASSUME TypeOK, NEW p \in Procs, ReadAll(p)
  PROVE  /\ cache' \in [Procs -> [Sections -> Section \cup {Absent}]]
         /\ edited' \in [Procs -> SUBSET Sections]
         /\ missed' \in [Procs -> SUBSET Sections]
<1>1. \A s \in Sections : Decrypt(p, db[s]) \in Section \cup {Absent}
  BY DecryptType DEF TypeOK
<1> QED
  BY <1>1 DEF ReadAll, TypeOK

(* A Save record at the start of a Save.                                    *)
LEMMA BeginType ==
  ASSUME TypeOK, NEW t \in Threads, NEW final \in BOOLEAN, Begin(t, final)
  PROVE  save' \in [Threads -> SaveRec]
<1> DEFINE p == ProcOf[t]
<1>1. PICK listed \in SUBSET Present(db) :
        save' = [save EXCEPT ![t] =
             [active |-> TRUE, final |-> final,
              synced |-> watch[p] = "on" /\ stream[p] = <<>> /\ missed[p] = {},
              todo |-> Present(cache[p]), existing |-> listed,
              touched |-> {},
              failed |-> Present(db) \ (listed \cup Present(cache[p]))]]
  BY DEF Begin
<1>2. Present(db) \in SUBSET Sections /\ Present(cache[p]) \in SUBSET Sections
  BY DEF Present
<1>3. (watch[p] = "on" /\ stream[p] = <<>> /\ missed[p] = {}) \in BOOLEAN
  OBVIOUS
<1>4. [active |-> TRUE, final |-> final,
       synced |-> watch[p] = "on" /\ stream[p] = <<>> /\ missed[p] = {},
       todo |-> Present(cache[p]), existing |-> listed, touched |-> {},
       failed |-> Present(db) \ (listed \cup Present(cache[p]))] \in SaveRec
  BY <1>2, <1>3 DEF SaveRec
<1> QED
  BY <1>1, <1>4 DEF TypeOK

(* SetValue stores a section, and so does DeleteKey unless it removes it.   *)
LEMMA EditedSections ==
  ASSUME NEW old \in Section \cup {Absent}, NEW k \in Keys, NEW v \in Values
  PROVE  /\ [j \in {k} \cup (IF old = Absent THEN {} ELSE DOMAIN old)
               |-> IF j = k THEN v ELSE old[j]] \in Section
         /\ old # Absent =>
              [j \in DOMAIN old \ {k} |-> old[j]] \in Section
<1> DEFINE dom == IF old = Absent THEN {} ELSE DOMAIN old
<1>1. dom \in SUBSET Keys /\ \A j \in dom : old[j] \in Values
  BY PartialFnFacts DEF Section
<1>2. [j \in {k} \cup dom |-> IF j = k THEN v ELSE old[j]] \in [{k} \cup dom -> Values]
  BY <1>1
<1>3. {k} \cup dom \in SUBSET Keys
  BY <1>1
<1>4. [j \in {k} \cup dom |-> IF j = k THEN v ELSE old[j]] \in Section
  BY <1>2, <1>3, PartialFnFacts DEF Section
<1>5. ASSUME old # Absent
      PROVE  [j \in DOMAIN old \ {k} |-> old[j]] \in Section
  <2>1. [j \in DOMAIN old \ {k} |-> old[j]] \in [DOMAIN old \ {k} -> Values]
    BY <1>1, <1>5
  <2>2. DOMAIN old \ {k} \in SUBSET Keys
    BY <1>1, <1>5
  <2> QED
    BY <2>1, <2>2, PartialFnFacts DEF Section
<1> QED
  BY <1>4, <1>5

(* What a process does keeps the types.                                     *)
LEMMA ProcStepType ==
  ASSUME TypeOK, NEW p \in Procs, ProcStep(p)
  PROVE  TypeOK'
<1>1. CASE Load(p)
  BY <1>1, ReadAllType DEF Load, TypeOK, Phases
<1>2. CASE StartWatching(p)
  BY <1>2 DEF StartWatching, TypeOK, Phases, Running, Watches
<1>3. CASE StartUnwatched(p)
  BY <1>3 DEF StartUnwatched, TypeOK, Phases, Running
<1>4. CASE FirstUse(p)
  BY <1>4, ReadAllType DEF FirstUse, TypeOK
<1>5. CASE Signal(p)
  BY <1>5 DEF Signal, TypeOK, Phases, Running, Watches
<1>6. CASE Die(p)
  BY <1>6, DownType DEF Die
<1>7. CASE ApplyEvent(p)
  <2> DEFINE e == Head(stream[p])
  <2>1. e \in Event /\ Tail(stream[p]) \in Seq(Event)
    BY <1>7 DEF ApplyEvent, TypeOK
  <2>2. Decrypt(p, e.doc) \in Section \cup {Absent} /\ e.id \in Sections
    BY <2>1, DecryptType DEF Event
  <2>3. cache' \in [Procs -> [Sections -> Section \cup {Absent}]]
    BY <1>7, <2>2 DEF ApplyEvent, TypeOK
  <2>4. stream' \in [Procs -> Seq(Event)]
    BY <1>7, <2>1 DEF ApplyEvent, TypeOK
  <2>5. /\ edited' \in [Procs -> SUBSET Sections]
        /\ missed' \in [Procs -> SUBSET Sections]
    BY <1>7 DEF ApplyEvent, TypeOK
  <2>6. waiting' \subseteq Procs
    BY <1>7 DEF ApplyEvent, TypeOK
  <2> QED
    BY <1>7, <2>3, <2>4, <2>5, <2>6 DEF ApplyEvent, TypeOK
<1>8. CASE Receive(p) \/ WatcherEnds(p)
  <2>1. CASE Receive(p)
    BY <2>1 DEF Receive, TypeOK
  <2>2. CASE WatcherEnds(p)
    BY <2>2 DEF WatcherEnds, TypeOK, Watches
  <2> QED
    BY <1>8, <2>1, <2>2
<1>9. ASSUME NEW s \in Sections, NEW k \in Keys, NEW v \in Values,
             SetValue(p, s, k, v)
      PROVE  TypeOK'
  <2>1. cache[p][s] \in Section \cup {Absent}
    BY DEF TypeOK
  <2> QED
    BY <1>9, <2>1, EditedSections, EditType DEF SetValue
<1>10. ASSUME NEW s \in Sections, NEW k \in Keys, DeleteKey(p, s, k)
       PROVE  TypeOK'
  <2> DEFINE old == cache[p][s]
             new == IF DOMAIN old = {k} THEN Absent
                    ELSE [j \in DOMAIN old \ {k} |-> old[j]]
  <2>1. old \in Section /\ k \in DOMAIN old /\ old # Absent
    BY <1>10 DEF TypeOK, DeleteKey
  <2>2. old[k] \in Values
    BY <2>1, PartialFnFacts DEF Section
  <2>3. new \in Section \cup {Absent}
    BY <2>1, <2>2, EditedSections
  <2>4. Edit(p, s, new)
    BY <1>10 DEF DeleteKey
  <2> QED
    BY <2>3, <2>4, EditType
<1>11. ASSUME NEW s \in Sections, DeleteSection(p, s)
       PROVE  TypeOK'
  BY <1>11, EditType DEF DeleteSection
<1> QED
  BY <1>1, <1>2, <1>3, <1>4, <1>5, <1>6, <1>7, <1>8, <1>9, <1>10, <1>11
  DEF ProcStep

(* What the steps of a Save make of its record.                             *)
LEMMA RecTypes ==
  ASSUME NEW r \in SaveRec, NEW s
  PROVE  /\ [r EXCEPT !.todo = @ \ {s}, !.existing = @ \ {s}] \in SaveRec
         /\ [r EXCEPT !.existing = @ \ {s}] \in SaveRec
         /\ s \in Sections =>
              [r EXCEPT !.existing = @ \ {s}, !.failed = @ \cup {s}] \in SaveRec
         /\ Idle \in SaveRec
<1>1. [r EXCEPT !.todo = @ \ {s}, !.existing = @ \ {s}] \in SaveRec
  BY DEF SaveRec
<1>2. [r EXCEPT !.existing = @ \ {s}] \in SaveRec
  BY DEF SaveRec
<1>3. s \in Sections =>
        [r EXCEPT !.existing = @ \ {s}, !.failed = @ \cup {s}] \in SaveRec
  BY DEF SaveRec
<1>4. Idle \in SaveRec
  BY DEF SaveRec, Idle
<1> QED
  BY <1>1, <1>2, <1>3, <1>4

(* The steps of a Save keep the types.                                      *)
LEMMA SaveTypes ==
  ASSUME TypeOK, NEW t \in Threads,
         SaveStep(t) \/ BeginSave(t) \/ BeginExitSave(t)
  PROVE  TypeOK'
<1> DEFINE p == ProcOf[t]
<1>p. p \in Procs
  BY ConstantsAssumption
<1>1. CASE BeginSave(t)
  BY <1>1, BeginType DEF BeginSave, TypeOK
<1>2. CASE BeginExitSave(t)
  BY <1>2, BeginType DEF BeginExitSave, TypeOK, Phases, Running
<1>3. ASSUME NEW s \in Sections, Upsert(t, s)
      PROVE  TypeOK'
  <2>1. cache[p][s] \in Section \cup {Absent}
    BY <1>p DEF TypeOK
  <2>2. Encrypt(p, cache[p][s]) \in Doc \cup {Absent}
    BY <1>p, <2>1, EncryptType
  <2>3. [save[t] EXCEPT !.todo = @ \ {s}, !.existing = @ \ {s}] \in SaveRec
    BY RecTypes DEF TypeOK
  <2> QED
    BY <1>3, <2>2, <2>3, WriteType DEF Upsert
<1>4. ASSUME NEW s \in Sections, DeleteStored(t, s)
      PROVE  TypeOK'
  <2>1. [save[t] EXCEPT !.existing = @ \ {s}] \in SaveRec
    BY RecTypes DEF TypeOK
  <2> QED
    BY <1>4, <2>1, WriteType DEF DeleteStored
<1>5. ASSUME NEW s \in Sections, DeleteFails(t, s)
      PROVE  TypeOK'
  <2>1. save' \in [Threads -> SaveRec]
    BY <1>5, RecTypes DEF DeleteFails, TypeOK
  <2> QED
    BY <1>5, <2>1 DEF DeleteFails, TypeOK
<1>6. CASE Return(t)
  <2>1. CASE save[t].final
    BY <1>p, <1>6, <2>1, DownType DEF Return
  <2>2. CASE ~save[t].final
    <3>1. save' \in [Threads -> SaveRec]
      BY <1>6, <2>2, RecTypes DEF Return, TypeOK
    <3> QED
      BY <1>6, <2>2, <3>1 DEF Return, TypeOK
  <2> QED
    BY <2>1, <2>2
<1> QED
  BY <1>1, <1>2, <1>3, <1>4, <1>5, <1>6 DEF SaveStep, EndSave, UpsertFails

LEMMA TypeStep == TypeOK /\ [Next]_vars => TypeOK'
<1> SUFFICES ASSUME TypeOK, [Next]_vars PROVE TypeOK'
  OBVIOUS
<1>1. CASE UNCHANGED vars
  BY <1>1 DEF vars, TypeOK
<1> QED
  BY <1>1, ProcStepType, SaveTypes DEF Next

LEMMA TypeInit == Init => TypeOK
<1> SUFFICES ASSUME Init PROVE TypeOK
  OBVIOUS
<1>1. \A p \in Procs, sec \in Section : Encrypt(p, sec) \in Doc \cup {Absent}
  BY EncryptType
<1>2. db \in [Sections -> Doc \cup {Absent}]
  BY <1>1 DEF Init
<1>3. count \in Count
  BY ConstantsAssumption DEF Init, Count
<1>4. \A t \in Threads : Idle \in SaveRec
  BY DEF Idle, SaveRec
<1> QED
  BY <1>2, <1>3, <1>4 DEF Init, TypeOK, Phases, Running, Watches

(* Every variable keeps its type, whatever the constants.                   *)
THEOREM TypeCorrect == Spec => []TypeOK
<1> QED
  BY TypeInit, TypeStep, PTL DEF Spec

-----------------------------------------------------------------------------
(* The life cycle.                                                          *)

(* Steps that leave the life cycle alone.                                   *)
LEMMA LifeCycleFrame ==
  ASSUME LifeCycle, UNCHANGED <<phase, used, watch, stream, missed>>,
         \A p \in Procs : LockFree(p) => LockFree(p)'
  PROVE  LifeCycle'
  BY DEF LifeCycle

LEMMA LifeCycleDown ==
  ASSUME TypeOK, LifeCycle, NEW p \in Procs, Down(p)
  PROVE  LifeCycle'
<1> SUFFICES ASSUME NEW q \in Procs
             PROVE  /\ watch'[q] = "on" => phase'[q] = "started"
                    /\ phase'[q] \in {"down", "loaded"} =>
                         /\ ~used'[q] /\ LockFree(q)'
                         /\ watch'[q] = "off" /\ stream'[q] = <<>>
                    /\ used'[q] => missed'[q] = {}
  BY DEF LifeCycle
<1>1. CASE q = p
  <2>1. LockFree(q)'
    BY <1>1 DEF Down, LockFree, TypeOK, Idle
  <2> QED
    BY <1>1, <2>1 DEF Down, TypeOK
<1>2. CASE q # p
  <2>1. LockFree(q) => LockFree(q)'
    BY <1>2 DEF Down, LockFree, TypeOK
  <2> QED
    BY <1>2, <2>1 DEF Down, TypeOK, LifeCycle
<1> QED
  BY <1>1, <1>2

LEMMA LifeCycleWrite ==
  ASSUME TypeOK, LifeCycle, NEW t \in Threads, NEW s, NEW doc,
         NEW rec, rec.active = save[t].active, Write(t, s, doc, rec)
  PROVE  LifeCycle'
<1>1. \A u \in Threads : save'[u].active = save[u].active
  <2> SUFFICES ASSUME NEW u \in Threads
               PROVE  save'[u].active = save[u].active
    OBVIOUS
  <2>1. save[u] \in SaveRec
    BY DEF TypeOK
  <2>2. [save[u] EXCEPT !.touched = @ \cup {s}].active = save[u].active
    BY <2>1 DEF SaveRec
  <2>3. save'[u] = IF u = t THEN rec
                   ELSE IF save[u].active /\ ProcOf[u] # ProcOf[t]
                     THEN [save[u] EXCEPT !.touched = @ \cup {s}]
                     ELSE save[u]
    BY DEF Write
  <2> QED
    BY <2>2, <2>3
<1>2. \A q \in Procs : LockFree(q) => LockFree(q)'
  BY <1>1 DEF LockFree
<1>3. UNCHANGED <<phase, used, watch>>
  BY DEF Write
<1>4. \A q \in Procs : watch[q] = "off" => stream'[q] = stream[q]
  BY DEF Write
<1>5. \A q \in Procs : used[q] => missed'[q] = missed[q]
  BY DEF Write, LifeCycle
<1> QED
  BY <1>2, <1>3, <1>4, <1>5 DEF LifeCycle

LEMMA LifeCycleStep == TypeOK /\ LifeCycle /\ [Next]_vars => LifeCycle'
<1> SUFFICES ASSUME TypeOK, LifeCycle, [Next]_vars PROVE LifeCycle'
  OBVIOUS
<1>1. CASE UNCHANGED vars
  BY <1>1, LifeCycleFrame DEF vars, LockFree
<1>2. ASSUME NEW p \in Procs, ProcStep(p) PROVE LifeCycle'
  <2>1. CASE Load(p)
    BY <2>1 DEF Load, ReadAll, LifeCycle, LockFree, TypeOK
  <2>2. CASE StartWatching(p)
    BY <2>2 DEF StartWatching, LifeCycle, LockFree, TypeOK
  <2>3. CASE StartUnwatched(p)
    BY <2>3 DEF StartUnwatched, LifeCycle, LockFree, TypeOK
  <2>4. CASE FirstUse(p)
    BY <2>4 DEF FirstUse, ReadAll, LifeCycle, LockFree, TypeOK
  <2>5. CASE Signal(p)
    BY <2>5 DEF Signal, LifeCycle, LockFree, TypeOK
  <2>6. CASE Die(p)
    BY <2>6, LifeCycleDown DEF Die
  <2>7. CASE ApplyEvent(p)
    BY <2>7 DEF ApplyEvent, LifeCycle, LockFree, TypeOK
  <2>8. CASE Receive(p) \/ WatcherEnds(p)
    BY <2>8 DEF Receive, WatcherEnds, LifeCycle, LockFree, TypeOK
  <2>9. ASSUME NEW s \in Sections, NEW sec, Edit(p, s, sec)
        PROVE  LifeCycle'
    BY <2>9, LifeCycleFrame DEF Edit, LockFree
  <2> QED
    BY <1>2, <2>1, <2>2, <2>3, <2>4, <2>5, <2>6, <2>7, <2>8, <2>9
    DEF ProcStep, SetValue, DeleteKey, DeleteSection
<1>3. ASSUME NEW t \in Threads, SaveStep(t) PROVE LifeCycle'
  <2>r. save[t] \in SaveRec /\ ProcOf[t] \in Procs
    BY ConstantsAssumption DEF TypeOK
  <2>1. ASSUME NEW s \in Sections, Upsert(t, s) PROVE LifeCycle'
    <3>1. [save[t] EXCEPT !.todo = @ \ {s}, !.existing = @ \ {s}].active
            = save[t].active
      BY <2>r DEF SaveRec
    <3> QED
      BY <2>1, <3>1, LifeCycleWrite DEF Upsert
  <2>2. ASSUME NEW s \in Sections, DeleteStored(t, s) PROVE LifeCycle'
    <3>1. [save[t] EXCEPT !.existing = @ \ {s}].active = save[t].active
      BY <2>r DEF SaveRec
    <3> QED
      BY <2>2, <3>1, LifeCycleWrite DEF DeleteStored
  <2>3. ASSUME NEW s \in Sections, DeleteFails(t, s) PROVE LifeCycle'
    <3>1. [save[t] EXCEPT !.existing = @ \ {s}, !.failed = @ \cup {s}].active
            = save[t].active
      BY <2>r DEF SaveRec
    <3>2. \A u \in Threads : save'[u].active = save[u].active
      BY <2>3, <3>1 DEF DeleteFails, TypeOK
    <3>3. \A p \in Procs : LockFree(p) => LockFree(p)'
      BY <3>2 DEF LockFree
    <3> QED
      BY <2>3, <3>3, LifeCycleFrame DEF DeleteFails
  <2>4. CASE Return(t)
    <3>1. CASE save[t].final
      BY <2>4, <2>r, <3>1, LifeCycleDown DEF Return
    <3>2. CASE ~save[t].final
      <4>1. \A u \in Threads : save'[u] = IF u = t THEN Idle ELSE save[u]
        BY <2>4, <3>2 DEF Return, TypeOK
      <4>2. ~Idle.active
        BY DEF Idle
      <4>3. \A p \in Procs : LockFree(p) => LockFree(p)'
        BY <4>1, <4>2 DEF LockFree
      <4> QED
        BY <2>4, <3>2, <4>3, LifeCycleFrame DEF Return
    <3> QED
      BY <3>1, <3>2
  <2> QED
    BY <1>3, <2>1, <2>2, <2>3, <2>4 DEF SaveStep, EndSave, UpsertFails
<1>4. ASSUME NEW t \in Threads, BeginSave(t) PROVE LifeCycle'
  <2>1. phase[ProcOf[t]] \notin {"down", "loaded"}
    BY <1>4 DEF BeginSave, InUse, Running
  <2>2. \A u \in Threads : u # t => save'[u] = save[u]
    BY <1>4 DEF BeginSave, Begin, TypeOK
  <2>3. \A p \in Procs : p # ProcOf[t] /\ LockFree(p) => LockFree(p)'
    BY <2>2 DEF LockFree
  <2> QED
    BY <1>4, <2>1, <2>3 DEF BeginSave, LifeCycle
<1>5. ASSUME NEW t \in Threads, BeginExitSave(t) PROVE LifeCycle'
  <2>1. \A u \in Threads : u # t => save'[u] = save[u]
    BY <1>5 DEF BeginExitSave, Begin, TypeOK
  <2>2. \A p \in Procs : p # ProcOf[t] /\ LockFree(p) => LockFree(p)'
    BY <2>1 DEF LockFree
  <2> QED
    BY <1>5, <2>2, ConstantsAssumption DEF BeginExitSave, LifeCycle, TypeOK
<1> QED
  BY <1>1, <1>2, <1>3, <1>4, <1>5 DEF Next

-----------------------------------------------------------------------------
(* The copy and the events on their way to it.                              *)

LEMMA NewestAppend ==
  ASSUME NEW evs \in Seq(Event), NEW e \in Event, NEW s, NEW d
  PROVE  /\ e.id # s =>
              /\ NoneOf(Append(evs, e), s) => NoneOf(evs, s)
              /\ Newest(evs, s, d) => Newest(Append(evs, e), s, d)
         /\ e.id = s =>
              /\ ~NoneOf(Append(evs, e), s)
              /\ Newest(Append(evs, e), s, e.doc)
<1> DEFINE new == Append(evs, e)
           n == Len(evs) + 1
<1>1. /\ DOMAIN new = 1..n /\ DOMAIN evs = 1..Len(evs)
      /\ \A i \in 1..Len(evs) : new[i] = evs[i]
      /\ new[n] = e /\ n \in 1..n /\ Len(evs) \in Nat
  OBVIOUS
<1>2. ASSUME e.id # s, NoneOf(new, s) PROVE NoneOf(evs, s)
  BY <1>1, <1>2 DEF NoneOf
<1>3. ASSUME e.id # s, Newest(evs, s, d) PROVE Newest(new, s, d)
  <2> SUFFICES ASSUME NEW i \in 1..n, new[i].id = s,
                      \A j \in 1..n : new[j].id = s => j <= i
               PROVE  new[i].doc = d
    BY <1>1 DEF Newest
  <2>1. i \in 1..Len(evs)
    BY <1>1, <1>3
  <2> QED
    BY <1>1, <1>3, <2>1 DEF Newest
<1>4. ASSUME e.id = s PROVE ~NoneOf(new, s)
  BY <1>1, <1>4 DEF NoneOf
<1>5. ASSUME e.id = s PROVE Newest(new, s, e.doc)
  <2> SUFFICES ASSUME NEW i \in 1..n, new[i].id = s,
                      \A j \in 1..n : new[j].id = s => j <= i
               PROVE  new[i].doc = e.doc
    BY <1>1 DEF Newest
  <2>1. n <= i
    BY <1>1, <1>5
  <2>2. i = n
    BY <1>1, <2>1
  <2> QED
    BY <1>1, <2>2
<1> QED
  BY <1>2, <1>3, <1>4, <1>5

LEMMA NewestTail ==
  ASSUME NEW evs \in Seq(Event), evs # <<>>, NEW s, NEW d, Newest(evs, s, d)
  PROVE  /\ Newest(Tail(evs), s, d)
         /\ NoneOf(Tail(evs), s) =>
              IF Head(evs).id = s THEN Head(evs).doc = d ELSE NoneOf(evs, s)
<1> DEFINE n == Len(evs)
<1>1. /\ n \in Nat /\ n > 0 /\ DOMAIN evs = 1..n
      /\ DOMAIN Tail(evs) = 1..(n - 1)
      /\ \A i \in 1..(n - 1) : Tail(evs)[i] = evs[i + 1]
      /\ Head(evs) = evs[1]
  OBVIOUS
<1>2. Newest(Tail(evs), s, d)
  <2> SUFFICES ASSUME NEW i \in 1..(n - 1), Tail(evs)[i].id = s,
                      \A j \in 1..(n - 1) : Tail(evs)[j].id = s => j <= i
               PROVE  Tail(evs)[i].doc = d
    BY <1>1 DEF Newest
  <2>1. i + 1 \in 1..n /\ evs[i + 1].id = s
    BY <1>1
  <2>2. ASSUME NEW j \in 1..n, evs[j].id = s PROVE j <= i + 1
    <3>1. CASE j = 1
      BY <3>1, <1>1
    <3>2. CASE j # 1
      <4>1. j - 1 \in 1..(n - 1) /\ Tail(evs)[j - 1] = evs[j]
        BY <1>1, <3>2
      <4> QED
        BY <2>2, <4>1, <1>1
    <3> QED
      BY <3>1, <3>2
  <2>3. evs[i + 1].doc = d
    BY <1>1, <2>1, <2>2 DEF Newest
  <2> QED
    BY <1>1, <2>3
<1>3. ASSUME NoneOf(Tail(evs), s), NEW j \in 1..n, evs[j].id = s PROVE j = 1
  <2>1. CASE j # 1
    <3>1. j - 1 \in 1..(n - 1) /\ Tail(evs)[j - 1] = evs[j]
      BY <1>1, <2>1
    <3> QED
      BY <1>1, <1>3, <3>1 DEF NoneOf
  <2> QED
    BY <2>1
<1>4. ASSUME NoneOf(Tail(evs), s), Head(evs).id = s PROVE Head(evs).doc = d
  <2>1. 1 \in DOMAIN evs /\ evs[1].id = s
    BY <1>1, <1>4
  <2>2. \A j \in DOMAIN evs : evs[j].id = s => j <= 1
    BY <1>1, <1>3, <1>4
  <2>3. evs[1].doc = d
    BY <2>1, <2>2 DEF Newest
  <2> QED
    BY <1>1, <2>3
<1>5. ASSUME NoneOf(Tail(evs), s), Head(evs).id # s PROVE NoneOf(evs, s)
  BY <1>1, <1>3, <1>5 DEF NoneOf
<1> QED
  BY <1>2, <1>4, <1>5

(* Steps that leave alone everything Tracks reads.                          *)
LEMMA TracksFrame ==
  ASSUME Tracks,
         UNCHANGED <<db, phase, watch, stream, cache, edited, missed>>
  PROVE  Tracks'
  BY DEF Tracks

LEMMA TracksDown ==
  ASSUME TypeOK, Tracks, NEW p \in Procs, Down(p), UNCHANGED db
  PROVE  Tracks'
<1> SUFFICES ASSUME NEW q \in Procs,
                    watch'[q] = "on" \/ phase'[q] = "loaded",
                    NEW s \in Sections
             PROVE  /\ NoneOf(stream'[q], s) =>
                         \/ s \in edited'[q] \cup missed'[q]
                         \/ cache'[q][s] = Decrypt(q, db'[s])
                    /\ Newest(stream'[q], s, db'[s])
  BY DEF Tracks
<1>1. q # p
  BY DEF Down, TypeOK
<1>2. /\ watch[q] = "on" \/ phase[q] = "loaded"
      /\ stream'[q] = stream[q] /\ cache'[q] = cache[q]
      /\ edited'[q] = edited[q] /\ missed'[q] = missed[q]
  BY <1>1 DEF Down, TypeOK
<1> QED
  BY <1>2 DEF Tracks

(* A write is announced to every watcher; who has loaded but does not watch *)
(* yet has missed it.                                                       *)
LEMMA TracksWrite ==
  ASSUME TypeOK, LifeCycle, Tracks, NEW t \in Threads, NEW s0 \in Sections,
         NEW doc \in Doc \cup {Absent}, NEW rec, Write(t, s0, doc, rec)
  PROVE  Tracks'
<1> SUFFICES ASSUME NEW q \in Procs,
                    watch'[q] = "on" \/ phase'[q] = "loaded",
                    NEW s \in Sections
             PROVE  /\ NoneOf(stream'[q], s) =>
                         \/ s \in edited'[q] \cup missed'[q]
                         \/ cache'[q][s] = Decrypt(q, db'[s])
                    /\ Newest(stream'[q], s, db'[s])
  BY DEF Tracks
<1> DEFINE e == [id |-> s0, doc |-> doc, by |-> ProcOf[t]]
<1>1. /\ watch[q] = "on" \/ phase[q] = "loaded"
      /\ watch' = watch /\ phase' = phase
      /\ cache'[q] = cache[q] /\ edited'[q] = edited[q]
  BY DEF Write
<1>2. /\ NoneOf(stream[q], s) =>
           s \in edited[q] \cup missed[q] \/ cache[q][s] = Decrypt(q, db[s])
      /\ Newest(stream[q], s, db[s])
  BY <1>1 DEF Tracks
<1>3. db'[s] = IF s = s0 THEN doc ELSE db[s]
  BY DEF Write, TypeOK
<1>4. missed[q] \subseteq missed'[q]
  BY DEF Write
<1>5. CASE watch[q] = "on" /\ Emits(s0, doc)
  <2>1. stream'[q] = Append(stream[q], e)
    BY <1>5 DEF Write
  <2>2. stream[q] \in Seq(Event) /\ e \in Event
    BY ConstantsAssumption DEF TypeOK, Event
  <2>3. CASE s = s0
    BY <1>3, <2>1, <2>2, <2>3, NewestAppend
  <2>4. CASE s # s0
    <3>1. e.id # s
      BY <2>4
    <3>2. NoneOf(stream'[q], s) => NoneOf(stream[q], s)
      BY <2>1, <2>2, <3>1, NewestAppend
    <3>3. Newest(stream'[q], s, db[s])
      BY <1>2, <2>1, <2>2, <3>1, NewestAppend
    <3> QED
      BY <1>1, <1>2, <1>3, <1>4, <2>4, <3>2, <3>3
  <2> QED
    BY <2>3, <2>4
<1>6. CASE ~Emits(s0, doc)
  <2>1. stream'[q] = stream[q] /\ db[s0] = doc
    BY <1>6 DEF Write, Emits
  <2>2. db'[s] = db[s]
    BY <1>3, <2>1
  <2> QED
    BY <1>1, <1>2, <1>4, <2>1, <2>2
<1>7. CASE watch[q] # "on" /\ Emits(s0, doc)
  <2>1. phase[q] = "loaded"
    BY <1>1, <1>7
  <2>2. stream'[q] = stream[q] /\ stream[q] = <<>>
    BY <1>7, <2>1 DEF Write, LifeCycle
  <2>3. Newest(stream'[q], s, db'[s])
    BY <2>2 DEF Newest
  <2>4. s0 \in missed'[q]
    BY <2>1 DEF Write
  <2> QED
    BY <1>1, <1>2, <1>3, <1>4, <2>2, <2>3, <2>4
<1> QED
  BY <1>5, <1>6, <1>7

LEMMA TracksStep ==
  TypeOK /\ LifeCycle /\ Tracks /\ [Next]_vars => Tracks'
<1> SUFFICES ASSUME TypeOK, LifeCycle, Tracks, [Next]_vars PROVE Tracks'
  OBVIOUS
<1>1. CASE UNCHANGED vars
  BY <1>1, TracksFrame DEF vars
<1>2. ASSUME NEW p \in Procs, ProcStep(p) PROVE Tracks'
  <2>1. CASE Load(p) \/ FirstUse(p)
    <3> SUFFICES ASSUME NEW q \in Procs,
                        watch'[q] = "on" \/ phase'[q] = "loaded",
                        NEW s \in Sections
                 PROVE  /\ NoneOf(stream'[q], s) =>
                             \/ s \in edited'[q] \cup missed'[q]
                             \/ cache'[q][s] = Decrypt(q, db'[s])
                        /\ Newest(stream'[q], s, db'[s])
      BY DEF Tracks
    <3>1. /\ db' = db /\ watch' = watch /\ stream' = stream
          /\ ReadAll(p)
          /\ \A r \in Procs : r # p => phase'[r] = phase[r]
      BY <2>1 DEF Load, FirstUse, TypeOK
    <3>2. CASE q = p
      <4>1. cache'[q][s] = Decrypt(q, db'[s])
        BY <3>1, <3>2 DEF ReadAll, TypeOK
      <4>2. Newest(stream[q], s, db[s])
        <5>1. CASE Load(p)
          <6>1. stream[q] = <<>>
            BY <5>1, <3>2 DEF Load, LifeCycle
          <6> QED
            BY <6>1 DEF Newest
        <5>2. CASE FirstUse(p)
          BY <3>1, <5>2 DEF FirstUse, Tracks
        <5> QED
          BY <2>1, <5>1, <5>2
      <4> QED
        BY <3>1, <4>1, <4>2
    <3>3. CASE q # p
      <4>1. /\ cache'[q] = cache[q]
            /\ edited'[q] = edited[q] /\ missed'[q] = missed[q]
        BY <3>1, <3>3 DEF ReadAll, TypeOK
      <4> QED
        BY <3>1, <3>3, <4>1 DEF Tracks
    <3> QED
      BY <3>2, <3>3
  <2>2. CASE StartWatching(p)
    BY <2>2 DEF StartWatching, Tracks, TypeOK
  <2>3. CASE StartUnwatched(p)
    BY <2>3 DEF StartUnwatched, Tracks, TypeOK
  <2>4. CASE Signal(p)
    BY <2>4 DEF Signal, Tracks, TypeOK
  <2>5. CASE Die(p)
    BY <2>5, TracksDown DEF Die
  <2>6. CASE ApplyEvent(p)
    <3> SUFFICES ASSUME NEW q \in Procs,
                        watch[q] = "on" \/ phase[q] = "loaded",
                        NEW s \in Sections
                 PROVE  /\ NoneOf(stream'[q], s) =>
                             \/ s \in edited'[q] \cup missed'[q]
                             \/ cache'[q][s] = Decrypt(q, db[s])
                        /\ Newest(stream'[q], s, db[s])
      BY <2>6 DEF ApplyEvent, Tracks
    <3> DEFINE e == Head(stream[p])
    <3>1. /\ NoneOf(stream[q], s) =>
               s \in edited[q] \cup missed[q] \/ cache[q][s] = Decrypt(q, db[s])
          /\ Newest(stream[q], s, db[s])
      BY DEF Tracks
    <3>2. CASE q # p
      <4>1. /\ stream'[q] = stream[q] /\ cache'[q] = cache[q]
            /\ edited'[q] = edited[q] /\ missed'[q] = missed[q]
        BY <2>6, <3>2 DEF ApplyEvent, TypeOK
      <4> QED
        BY <3>1, <4>1
    <3>3. CASE q = p
      <4>h. stream[p] \in Seq(Event) /\ stream[p] # <<>>
        BY <2>6 DEF ApplyEvent, TypeOK
      <4>i. e \in Event
        BY <4>h
      <4>1. stream[p] \in Seq(Event) /\ stream[p] # <<>> /\ e.id \in Sections
        BY <4>h, <4>i DEF Event
      <4>2. stream'[p] = Tail(stream[p])
        BY <2>6 DEF ApplyEvent, TypeOK
      <4>3. cache'[p][s] = IF s = e.id THEN Decrypt(p, e.doc) ELSE cache[p][s]
        BY <2>6, <4>1 DEF ApplyEvent, TypeOK
      <4>4. /\ edited'[p] = edited[p] \ {e.id}
            /\ missed'[p] = missed[p] \ {e.id}
        BY <2>6 DEF ApplyEvent, TypeOK
      <4>5. /\ Newest(Tail(stream[p]), s, db[s])
            /\ NoneOf(Tail(stream[p]), s) =>
                 IF e.id = s THEN e.doc = db[s] ELSE NoneOf(stream[p], s)
        BY <3>1, <3>3, <4>1, NewestTail
      <4> QED
        BY <3>1, <3>3, <4>2, <4>3, <4>4, <4>5
    <3> QED
      BY <3>2, <3>3
  <2>7. CASE Receive(p) \/ WatcherEnds(p)
    BY <2>7 DEF Receive, WatcherEnds, Tracks, TypeOK, LifeCycle
  <2>8. ASSUME NEW s0 \in Sections, NEW sec, Edit(p, s0, sec)
        PROVE  Tracks'
    <3> SUFFICES ASSUME NEW q \in Procs,
                        watch[q] = "on" \/ phase[q] = "loaded",
                        NEW s \in Sections
                 PROVE  /\ NoneOf(stream[q], s) =>
                             \/ s \in edited'[q] \cup missed[q]
                             \/ cache'[q][s] = Decrypt(q, db[s])
                        /\ Newest(stream[q], s, db[s])
      BY <2>8 DEF Edit, Tracks
    <3>1. /\ s \notin edited'[q] => cache'[q][s] = cache[q][s]
          /\ edited[q] \subseteq edited'[q]
      BY <2>8 DEF Edit, TypeOK
    <3> QED
      BY <3>1 DEF Tracks
  <2> QED
    BY <1>2, <2>1, <2>2, <2>3, <2>4, <2>5, <2>6, <2>7, <2>8
    DEF ProcStep, SetValue, DeleteKey, DeleteSection
<1>3. ASSUME NEW t \in Threads, SaveStep(t) PROVE Tracks'
  <2>r. ProcOf[t] \in Procs
    BY ConstantsAssumption
  <2>1. ASSUME NEW s \in Sections, Upsert(t, s) PROVE Tracks'
    <3>1. Encrypt(ProcOf[t], cache[ProcOf[t]][s]) \in Doc \cup {Absent}
      BY <2>r, EncryptType DEF TypeOK
    <3> QED
      BY <2>1, <3>1, TracksWrite DEF Upsert
  <2>2. ASSUME NEW s \in Sections, DeleteStored(t, s) PROVE Tracks'
    BY <2>2, TracksWrite DEF DeleteStored
  <2>3. ASSUME NEW s \in Sections, DeleteFails(t, s) PROVE Tracks'
    BY <2>3, TracksFrame DEF DeleteFails
  <2>4. CASE Return(t)
    BY <2>4, <2>r, TracksDown, TracksFrame DEF Return
  <2> QED
    BY <1>3, <2>1, <2>2, <2>3, <2>4 DEF SaveStep, EndSave, UpsertFails
<1>4. ASSUME NEW t \in Threads, BeginSave(t) PROVE Tracks'
  BY <1>4, TracksFrame DEF BeginSave
<1>5. ASSUME NEW t \in Threads, BeginExitSave(t) PROVE Tracks'
  BY <1>5 DEF BeginExitSave, Tracks, TypeOK
<1> QED
  BY <1>1, <1>2, <1>3, <1>4, <1>5 DEF Next

-----------------------------------------------------------------------------
(* A Save in progress.                                                      *)

(* What the Save of t has established: the three conjuncts about Saves for  *)
(* one goroutine.                                                           *)
SaveInv(t) ==
  LET p == ProcOf[t] IN
  /\ save[t].todo \subseteq Present(cache[p])
  /\ save[t].existing \cap Present(cache[p]) \subseteq save[t].todo
  /\ \A s \in Sections \ save[t].touched :
       IF cache[p][s] = Absent
         THEN s \in save[t].existing \cup save[t].failed \/ db[s] = Absent
         ELSE s \in save[t].todo \/ db[s] = Encrypt(p, cache[p][s])
  /\ save[t].synced =>
       \A s \in Sections \ edited[p] :
         /\ s \in save[t].existing => s \in save[t].todo
         /\ s \in save[t].touched \/ cache[p][s] = Decrypt(p, db[s])

Saves == \A t \in Threads : save[t].active => SaveInv(t)

LEMMA SavesDef ==
  Saves <=> SaveShape /\ SaveWritesTheCopy /\ CaughtUpSaveKeepsOthers
  BY DEF Saves, SaveInv, SaveShape, SaveWritesTheCopy, CaughtUpSaveKeepsOthers

(* A Save keeps what it has established when its record, the copy it writes *)
(* and the collection stay.                                                 *)
LEMMA SaveInvFrame ==
  ASSUME NEW t \in Threads, SaveInv(t), db' = db, save'[t] = save[t],
         cache'[ProcOf[t]] = cache[ProcOf[t]],
         edited'[ProcOf[t]] = edited[ProcOf[t]]
  PROVE  SaveInv(t)'
<1>1. Present(cache[ProcOf[t]])' = Present(cache[ProcOf[t]])
  BY DEF Present
<1> QED
  BY <1>1 DEF SaveInv

(* The lock: the copy of a process changes only while no Save of it is in   *)
(* progress.                                                                *)
LEMMA SavesOutside ==
  ASSUME TypeOK, Saves, NEW p \in Procs, LockFree(p), UNCHANGED <<db, save>>,
         \A q \in Procs : q # p => cache'[q] = cache[q] /\ edited'[q] = edited[q]
  PROVE  Saves'
<1> SUFFICES ASSUME NEW t \in Threads, save'[t].active PROVE SaveInv(t)'
  BY DEF Saves
<1>1. save[t].active /\ ProcOf[t] # p
  BY DEF LockFree
<1>2. ProcOf[t] \in Procs
  BY ConstantsAssumption
<1> QED
  BY <1>1, <1>2, SaveInvFrame DEF Saves

LEMMA SavesDown ==
  ASSUME TypeOK, Saves, NEW p \in Procs, Down(p), UNCHANGED db
  PROVE  Saves'
<1> SUFFICES ASSUME NEW t \in Threads, save'[t].active PROVE SaveInv(t)'
  BY DEF Saves
<1>1. save'[t] = IF ProcOf[t] = p THEN Idle ELSE save[t]
  BY DEF Down
<1>2. ProcOf[t] # p /\ save'[t] = save[t]
  BY <1>1 DEF Idle
<1>3. ProcOf[t] \in Procs
  BY ConstantsAssumption
<1>4. /\ cache'[ProcOf[t]] = cache[ProcOf[t]]
      /\ edited'[ProcOf[t]] = edited[ProcOf[t]]
  BY <1>2, <1>3 DEF Down, TypeOK
<1> QED
  BY <1>2, <1>4, SaveInvFrame DEF Saves

(* What an upsert or a delete does to the Save that makes it.               *)
LEMMA SaveInvOwnWrite ==
  ASSUME TypeOK, NEW t \in Threads, SaveInv(t), NEW s \in Sections,
         UNCHANGED <<cache, edited>>,
         \/ /\ s \in save[t].todo
            /\ db' = [db EXCEPT ![s] = Encrypt(ProcOf[t], cache[ProcOf[t]][s])]
            /\ save'[t].todo = save[t].todo \ {s}
         \/ /\ save[t].todo = {} /\ s \in save[t].existing
            /\ db' = [db EXCEPT ![s] = Absent]
            /\ save'[t].todo = save[t].todo,
         save'[t].existing = save[t].existing \ {s},
         save'[t].failed = save[t].failed, save'[t].touched = save[t].touched,
         save'[t].synced = save[t].synced
  PROVE  SaveInv(t)'
<1> DEFINE p == ProcOf[t]
<1>p. p \in Procs
  BY ConstantsAssumption
<1>1. \A r \in Sections : r # s => db'[r] = db[r]
  BY DEF TypeOK
<1>2. Present(cache[p])' = Present(cache[p])
  BY DEF Present
<1>3. cache[p][s] \in Section \cup {Absent}
  BY <1>p DEF TypeOK
<1>4. CASE s \in save[t].todo /\ save'[t].todo = save[t].todo \ {s}
           /\ db' = [db EXCEPT ![s] = Encrypt(p, cache[p][s])]
  <2>1. cache[p][s] # Absent
    BY <1>4 DEF SaveInv, Present
  <2>2. db'[s] = Encrypt(p, cache[p][s])
    BY <1>4 DEF TypeOK
  <2>3. Decrypt(p, db'[s]) = cache[p][s]
    BY <1>p, <1>3, <2>2, DecryptEncrypt
  <2> QED
    BY <1>1, <1>2, <1>4, <2>1, <2>2, <2>3 DEF SaveInv
<1>5. CASE save[t].todo = {} /\ s \in save[t].existing
           /\ db' = [db EXCEPT ![s] = Absent] /\ save'[t].todo = save[t].todo
  <2>1. cache[p][s] = Absent
    BY <1>5 DEF SaveInv, Present
  <2>2. db'[s] = Absent
    BY <1>5 DEF TypeOK
  <2>3. save[t].synced => s \in edited[p]
    BY <1>5 DEF SaveInv
  <2> QED
    BY <1>1, <1>2, <1>5, <2>1, <2>2, <2>3 DEF SaveInv
<1> QED
  BY <1>4, <1>5

(* What they do to another Save: one of the same process writes the same    *)
(* copy, one of another process takes note.                                 *)
LEMMA SaveInvOtherWrite ==
  ASSUME TypeOK, NEW t \in Threads, SaveInv(t), NEW u \in Threads, SaveInv(u),
         NEW s \in Sections, UNCHANGED <<cache, edited>>,
         \/ /\ s \in save[t].todo
            /\ db' = [db EXCEPT ![s] = Encrypt(ProcOf[t], cache[ProcOf[t]][s])]
         \/ /\ save[t].todo = {} /\ s \in save[t].existing
            /\ db' = [db EXCEPT ![s] = Absent],
         save'[u] = IF ProcOf[u] # ProcOf[t]
                      THEN [save[u] EXCEPT !.touched = @ \cup {s}] ELSE save[u]
  PROVE  SaveInv(u)'
<1> DEFINE p == ProcOf[u]
<1>p. p \in Procs
  BY ConstantsAssumption
<1>1. \A r \in Sections : r # s => db'[r] = db[r]
  BY DEF TypeOK
<1>2. Present(cache[p])' = Present(cache[p])
  BY DEF Present
<1>3. CASE ProcOf[u] # ProcOf[t]
  <2>1. save[u] \in SaveRec
    BY DEF TypeOK
  <2>2. /\ save'[u].todo = save[u].todo
        /\ save'[u].existing = save[u].existing
        /\ save'[u].failed = save[u].failed
        /\ save'[u].synced = save[u].synced
        /\ save'[u].touched = save[u].touched \cup {s}
    BY <1>3, <2>1 DEF SaveRec
  <2> QED
    BY <1>1, <1>2, <2>2 DEF SaveInv
<1>4. CASE ProcOf[u] = ProcOf[t]
  <2>1. save'[u] = save[u]
    BY <1>4
  <2>2. cache[p][s] \in Section \cup {Absent}
    BY <1>p DEF TypeOK
  <2>3. CASE s \in save[t].todo
             /\ db' = [db EXCEPT ![s] = Encrypt(p, cache[p][s])]
    <3>1. cache[p][s] # Absent
      BY <1>4, <2>3 DEF SaveInv, Present
    <3>2. db'[s] = Encrypt(p, cache[p][s])
      BY <2>3 DEF TypeOK
    <3>3. Decrypt(p, db'[s]) = cache[p][s]
      BY <1>p, <2>2, <3>2, DecryptEncrypt
    <3> QED
      BY <1>1, <1>2, <2>1, <3>1, <3>2, <3>3 DEF SaveInv
  <2>4. CASE save[t].todo = {} /\ s \in save[t].existing
             /\ db' = [db EXCEPT ![s] = Absent]
    <3>1. cache[p][s] = Absent
      BY <1>4, <2>4 DEF SaveInv, Present
    <3>2. db'[s] = Absent
      BY <2>4 DEF TypeOK
    <3>3. Decrypt(p, db'[s]) = cache[p][s]
      BY <3>1, <3>2 DEF Decrypt
    <3> QED
      BY <1>1, <1>2, <2>1, <3>1, <3>2, <3>3 DEF SaveInv
  <2> QED
    BY <1>4, <2>3, <2>4
<1> QED
  BY <1>3, <1>4

(* A Save starts from the whole copy and, when caught up, from the whole    *)
(* collection.                                                              *)
LEMMA SavesBegin ==
  ASSUME TypeOK, Tracks, Saves, NEW t \in Threads, NEW final \in BOOLEAN,
         Begin(t, final), UNCHANGED <<db, cache, edited>>
  PROVE  Saves'
<1> DEFINE p == ProcOf[t]
<1>p. p \in Procs
  BY ConstantsAssumption
<1>1. PICK listed \in SUBSET Present(db) :
        save' = [save EXCEPT ![t] =
             [active |-> TRUE, final |-> final,
              synced |-> watch[p] = "on" /\ stream[p] = <<>> /\ missed[p] = {},
              todo |-> Present(cache[p]), existing |-> listed,
              touched |-> {},
              failed |-> Present(db) \ (listed \cup Present(cache[p]))]]
  BY DEF Begin
<1> SUFFICES ASSUME NEW u \in Threads, save'[u].active PROVE SaveInv(u)'
  BY DEF Saves
<1>2. CASE u = t
  <2>1. /\ save'[t].todo = Present(cache[p])
        /\ save'[t].existing = listed
        /\ save'[t].touched = {}
        /\ save'[t].failed = Present(db) \ (listed \cup Present(cache[p]))
        /\ save'[t].synced = (watch[p] = "on" /\ stream[p] = <<>> /\ missed[p] = {})
    BY <1>1 DEF TypeOK
  <2>2. Present(cache[p])' = Present(cache[p])
    BY DEF Present
  <2>3. \A s \in Sections :
          IF cache[p][s] = Absent
            THEN s \in listed \cup save'[t].failed \/ db[s] = Absent
            ELSE s \in Present(cache[p])
    BY <2>1 DEF Present
  <2>4. ASSUME save'[t].synced, NEW s \in Sections \ edited[p]
        PROVE  /\ cache[p][s] = Decrypt(p, db[s])
               /\ s \in listed => s \in Present(cache[p])
    <3>0. watch[p] = "on" /\ stream[p] = <<>> /\ missed[p] = {}
      BY <2>1, <2>4
    <3>1. NoneOf(stream[p], s)
      BY <3>0 DEF NoneOf
    <3>2. cache[p][s] = Decrypt(p, db[s])
      BY <1>p, <2>4, <3>0, <3>1 DEF Tracks
    <3>3. db[s] \in Doc \cup {Absent}
      BY DEF TypeOK
    <3>4. db[s] # Absent => cache[p][s] # Absent
      BY <1>p, <3>2, <3>3, DecryptType
    <3> QED
      BY <3>2, <3>4 DEF Present
  <2> QED
    BY <1>2, <2>1, <2>2, <2>3, <2>4 DEF SaveInv
<1>3. CASE u # t
  <2>1. save'[u] = save[u]
    BY <1>1, <1>3 DEF TypeOK
  <2> QED
    BY <2>1, SaveInvFrame DEF Saves
<1> QED
  BY <1>2, <1>3

LEMMA SavesWrite ==
  ASSUME TypeOK, Saves, NEW t \in Threads, NEW s \in Sections,
         Upsert(t, s) \/ DeleteStored(t, s)
  PROVE  Saves'
<1> DEFINE p == ProcOf[t]
<1>1. save[t].active /\ SaveInv(t) /\ save[t] \in SaveRec
  BY DEF Upsert, DeleteStored, Saves, TypeOK
<1>2. PICK doc, rec :
        /\ Write(t, s, doc, rec)
        /\ \/ /\ s \in save[t].todo /\ doc = Encrypt(p, cache[p][s])
              /\ rec = [save[t] EXCEPT !.todo = @ \ {s}, !.existing = @ \ {s}]
           \/ /\ save[t].todo = {} /\ s \in save[t].existing /\ doc = Absent
              /\ rec = [save[t] EXCEPT !.existing = @ \ {s}]
  BY DEF Upsert, DeleteStored
<1>3. UNCHANGED <<cache, edited>> /\ db' = [db EXCEPT ![s] = doc]
  BY <1>2 DEF Write
<1>4. \A u \in Threads : save'[u] =
        IF u = t THEN rec
        ELSE IF save[u].active /\ ProcOf[u] # p
          THEN [save[u] EXCEPT !.touched = @ \cup {s}]
          ELSE save[u]
  BY <1>2 DEF Write
<1>5. /\ rec.existing = save[t].existing \ {s}
      /\ rec.failed = save[t].failed /\ rec.touched = save[t].touched
      /\ rec.synced = save[t].synced
  BY <1>1, <1>2 DEF SaveRec
<1>6. /\ rec = [save[t] EXCEPT !.todo = @ \ {s}, !.existing = @ \ {s}] =>
           rec.todo = save[t].todo \ {s}
      /\ rec = [save[t] EXCEPT !.existing = @ \ {s}] => rec.todo = save[t].todo
  BY <1>1 DEF SaveRec
<1>7. \/ /\ s \in save[t].todo /\ rec.todo = save[t].todo \ {s}
         /\ db' = [db EXCEPT ![s] = Encrypt(p, cache[p][s])]
      \/ /\ save[t].todo = {} /\ s \in save[t].existing
         /\ rec.todo = save[t].todo
         /\ db' = [db EXCEPT ![s] = Absent]
  BY <1>2, <1>3, <1>6
<1> SUFFICES ASSUME NEW u \in Threads, save'[u].active PROVE SaveInv(u)'
  BY DEF Saves
<1>8. CASE u = t
  <2>1. save'[t] = rec
    BY <1>4
  <2> QED
    BY <1>1, <1>3, <1>5, <1>7, <1>8, <2>1, SaveInvOwnWrite
<1>9. CASE u # t
  <2>1. save[u] \in SaveRec
    BY DEF TypeOK
  <2>2. save[u].active
    BY <1>4, <1>9, <2>1 DEF SaveRec
  <2>3. SaveInv(u)
    BY <2>2 DEF Saves
  <2>4. save'[u] = IF ProcOf[u] # p
                     THEN [save[u] EXCEPT !.touched = @ \cup {s}] ELSE save[u]
    BY <1>4, <1>9, <2>2
  <2> QED
    BY <1>1, <1>3, <1>7, <2>3, <2>4, SaveInvOtherWrite
<1> QED
  BY <1>8, <1>9

LEMMA SavesStep ==
  TypeOK /\ LifeCycle /\ Tracks /\ Saves /\ [Next]_vars => Saves'
<1> SUFFICES ASSUME TypeOK, LifeCycle, Tracks, Saves, [Next]_vars PROVE Saves'
  OBVIOUS
<1>1. CASE UNCHANGED vars
  BY <1>1 DEF vars, Saves, SaveInv, Present
<1>2. ASSUME NEW p \in Procs, ProcStep(p) PROVE Saves'
  <2>1. CASE Load(p) \/ FirstUse(p)
    <3>1. LockFree(p)
      BY <2>1 DEF Load, FirstUse, LifeCycle
    <3>2. ReadAll(p) /\ UNCHANGED <<db, save>>
      BY <2>1 DEF Load, FirstUse
    <3>3. \A q \in Procs : q # p =>
            cache'[q] = cache[q] /\ edited'[q] = edited[q]
      BY <3>2 DEF ReadAll, TypeOK
    <3> QED
      BY <3>1, <3>2, <3>3, SavesOutside
  <2>2. CASE \/ StartWatching(p) \/ StartUnwatched(p) \/ Signal(p)
             \/ Receive(p) \/ WatcherEnds(p)
    <3>1. UNCHANGED <<db, save, cache, edited>>
      BY <2>2 DEF StartWatching, StartUnwatched, Signal, Receive, WatcherEnds
    <3> QED
      BY <3>1, SaveInvFrame DEF Saves
  <2>3. CASE Die(p)
    BY <2>3, SavesDown DEF Die
  <2>4. CASE ApplyEvent(p)
    <3>1. \A q \in Procs : q # p =>
            cache'[q] = cache[q] /\ edited'[q] = edited[q]
      BY <2>4 DEF ApplyEvent, TypeOK
    <3> QED
      BY <2>4, <3>1, SavesOutside DEF ApplyEvent
  <2>5. ASSUME NEW s \in Sections, NEW sec, Edit(p, s, sec) PROVE Saves'
    <3>1. \A q \in Procs : q # p =>
            cache'[q] = cache[q] /\ edited'[q] = edited[q]
      BY <2>5 DEF Edit, TypeOK
    <3> QED
      BY <2>5, <3>1, SavesOutside DEF Edit
  <2> QED
    BY <1>2, <2>1, <2>2, <2>3, <2>4, <2>5
    DEF ProcStep, SetValue, DeleteKey, DeleteSection
<1>3. ASSUME NEW t \in Threads, SaveStep(t) PROVE Saves'
  <2>r. ProcOf[t] \in Procs /\ save[t] \in SaveRec
    BY ConstantsAssumption DEF TypeOK
  <2>1. ASSUME NEW s \in Sections, Upsert(t, s) \/ DeleteStored(t, s)
        PROVE  Saves'
    BY <2>1, SavesWrite
  <2>2. ASSUME NEW s \in Sections, DeleteFails(t, s) PROVE Saves'
    <3> SUFFICES ASSUME NEW u \in Threads, save'[u].active PROVE SaveInv(u)'
      BY DEF Saves
    <3>1. UNCHANGED <<db, cache, edited>>
      BY <2>2 DEF DeleteFails
    <3>2. CASE u # t
      <4>1. save'[u] = save[u]
        BY <2>2, <3>2 DEF DeleteFails, TypeOK
      <4> QED
        BY <3>1, <4>1, SaveInvFrame DEF Saves
    <3>3. CASE u = t
      <4> DEFINE rec == [save[t] EXCEPT !.existing = @ \ {s}, !.failed = @ \cup {s}]
      <4>1. SaveInv(t)
        BY <2>2 DEF DeleteFails, Saves
      <4>2. save'[t] = rec
        BY <2>2 DEF DeleteFails, TypeOK
      <4>3. /\ rec.todo = save[t].todo /\ rec.existing = save[t].existing \ {s}
            /\ rec.failed = save[t].failed \cup {s}
            /\ rec.touched = save[t].touched /\ rec.synced = save[t].synced
        BY <2>r DEF SaveRec
      <4>4. Present(cache[ProcOf[t]])' = Present(cache[ProcOf[t]])
        BY <3>1 DEF Present
      <4> QED
        BY <3>1, <3>3, <4>1, <4>2, <4>3, <4>4 DEF SaveInv
    <3> QED
      BY <3>2, <3>3
  <2>3. CASE Return(t)
    <3>1. CASE save[t].final
      BY <2>3, <2>r, <3>1, SavesDown DEF Return
    <3>2. CASE ~save[t].final
      <4>1. UNCHANGED <<db, cache, edited>>
        BY <2>3, <3>2 DEF Return
      <4>2. \A u \in Threads : save'[u] = IF u = t THEN Idle ELSE save[u]
        BY <2>3, <3>2 DEF Return, TypeOK
      <4>3. \A u \in Threads : save'[u].active => save'[u] = save[u]
        BY <4>2 DEF Idle
      <4> QED
        BY <4>1, <4>3, SaveInvFrame DEF Saves
    <3> QED
      BY <3>1, <3>2
  <2> QED
    BY <1>3, <2>1, <2>2, <2>3 DEF SaveStep, EndSave, UpsertFails
<1>4. ASSUME NEW t \in Threads, BeginSave(t) \/ BeginExitSave(t) PROVE Saves'
  BY <1>4, SavesBegin DEF BeginSave, BeginExitSave
<1> QED
  BY <1>1, <1>2, <1>3, <1>4 DEF Next

-----------------------------------------------------------------------------
(* The inductive invariant and what follows from it.                        *)

LEMMA IInvInit == Init => IInv
<1> SUFFICES ASSUME Init PROVE IInv
  OBVIOUS
<1>1. TypeOK
  BY TypeInit
<1>2. LifeCycle
  BY DEF Init, LifeCycle, LockFree, Idle
<1>3. Tracks
  BY DEF Init, Tracks
<1>4. Saves
  BY DEF Init, Saves, Idle
<1> QED
  BY <1>1, <1>2, <1>3, <1>4, SavesDef DEF IInv

LEMMA IInvStep == IInv /\ [Next]_vars => IInv'
<1> SUFFICES ASSUME IInv, [Next]_vars PROVE IInv'
  OBVIOUS
<1>1. TypeOK /\ LifeCycle /\ Tracks /\ Saves
  BY SavesDef DEF IInv
<1>2. TypeOK' /\ LifeCycle' /\ Tracks' /\ Saves'
  BY <1>1, TypeStep, LifeCycleStep, TracksStep, SavesStep
<1>3. Saves' <=> SaveShape' /\ SaveWritesTheCopy' /\ CaughtUpSaveKeepsOthers'
  BY DEF Saves, SaveInv, SaveShape, SaveWritesTheCopy, CaughtUpSaveKeepsOthers
<1> QED
  BY <1>2, <1>3 DEF IInv

LEMMA IInvCorrect == Spec => []IInv
<1> QED
  BY IInvInit, IInvStep, PTL DEF Spec

(* The copy of a process that watches and has been loaded by rclone is the  *)
(* collection's latest state, up to the events on their way and the edits   *)
(* of the process: in every interleaving of any number of processes.        *)
THEOREM WatchedCopyCorrect == Spec => []WatchedCopyTracksDb
<1>1. IInv => WatchedCopyTracksDb
  <2> SUFFICES ASSUME IInv, NEW p \in Procs, watch[p] = "on", used[p],
                      NEW s \in Sections
               PROVE  UpToDate(p, s, edited[p])
    BY DEF WatchedCopyTracksDb
  <2>1. missed[p] = {}
    BY DEF IInv, LifeCycle
  <2>2. /\ NoneOf(stream[p], s) =>
             s \in edited[p] \/ cache[p][s] = Decrypt(p, db[s])
        /\ Newest(stream[p], s, db[s])
    BY <2>1 DEF IInv, Tracks
  <2> QED
    BY <2>2 DEF UpToDate, Pending, NoneOf, Newest
<1> QED
  BY <1>1, IInvCorrect, PTL

(* Whatever a Save has dealt with is in the collection as the memory has    *)
(* it, up to what others wrote meanwhile and the deletes it missed: the     *)
(* lock makes its many writes those of one copy.                            *)
THEOREM SaveWritesTheCopyCorrect == Spec => []SaveWritesTheCopy
<1>1. IInv => SaveWritesTheCopy
  BY DEF IInv
<1> QED
  BY <1>1, IInvCorrect, PTL

(* A Save of a caught-up process deletes only what the process removed and  *)
(* keeps every section it did not edit, except for writes made while it     *)
(* runs.                                                                    *)
THEOREM CaughtUpSaveCorrect == Spec => []CaughtUpSaveKeepsOthers
<1>1. IInv => CaughtUpSaveKeepsOthers
  BY DEF IInv
<1> QED
  BY <1>1, IInvCorrect, PTL

-----------------------------------------------------------------------------
(* Load is all or nothing.                                                  *)

(* What a step may do without disturbing the copy of a process that has     *)
(* loaded and not yet started.                                              *)
KeepsLoaded(q) ==
  phase'[q] = "loaded" =>
    /\ phase[q] = "loaded"
    /\ cache'[q] = cache[q]
    /\ \A s \in Sections \ missed'[q] : s \notin missed[q] /\ db'[s] = db[s]

LEMMA WholeFrame ==
  ASSUME StartsFromAWholeCopy, \A q \in Procs : KeepsLoaded(q)
  PROVE  StartsFromAWholeCopy'
<1> SUFFICES ASSUME NEW q \in Procs, phase'[q] = "loaded",
                    NEW s \in Sections \ missed'[q]
             PROVE  (IF db[s] = Absent THEN cache[q][s] = Absent
                     ELSE cache[q][s] = [k \in DOMAIN db[s] |-> db[s][k].val])'
  BY DEF StartsFromAWholeCopy
<1>1. /\ phase[q] = "loaded" /\ cache'[q] = cache[q]
      /\ s \in Sections \ missed[q] /\ db'[s] = db[s]
  BY DEF KeepsLoaded
<1> QED
  BY <1>1 DEF StartsFromAWholeCopy

(* A Load that succeeds reads every field of every section.                 *)
LEMMA WholeLoad ==
  ASSUME TypeOK, StartsFromAWholeCopy, NEW p \in Procs, Load(p)
  PROVE  StartsFromAWholeCopy'
<1>1. \A s \in Sections : cache'[p][s] = Decrypt(p, db[s])
  BY DEF Load, ReadAll, TypeOK
<1>2. ASSUME NEW s \in Sections
      PROVE  IF db[s] = Absent THEN Decrypt(p, db[s]) = Absent
             ELSE Decrypt(p, db[s]) = [k \in DOMAIN db[s] |-> db[s][k].val]
  <2>1. db[s] # Absent => Readable(p, db[s]) = DOMAIN db[s]
    BY DEF Load, ReadAll, Loadable
  <2> QED
    BY <2>1 DEF Decrypt
<1>3. \A q \in Procs : q # p => KeepsLoaded(q)
  BY DEF Load, ReadAll, KeepsLoaded, TypeOK
<1> SUFFICES ASSUME NEW q \in Procs, phase'[q] = "loaded",
                    NEW s \in Sections \ missed'[q]
             PROVE  (IF db[s] = Absent THEN cache[q][s] = Absent
                     ELSE cache[q][s] = [k \in DOMAIN db[s] |-> db[s][k].val])'
  BY DEF StartsFromAWholeCopy
<1>4. db'[s] = db[s]
  BY DEF Load
<1>5. CASE q = p
  BY <1>1, <1>2, <1>4, <1>5
<1>6. CASE q # p
  BY <1>3, <1>4, <1>6 DEF KeepsLoaded, StartsFromAWholeCopy
<1> QED
  BY <1>5, <1>6

(* The end of a process leaves the others as they are.                      *)
LEMMA WholeDown ==
  ASSUME TypeOK, StartsFromAWholeCopy,
         NEW p \in Procs, Down(p), UNCHANGED <<db, count>>
  PROVE  StartsFromAWholeCopy'
<1>1. \A q \in Procs : KeepsLoaded(q)
  BY DEF Down, KeepsLoaded, TypeOK
<1> QED
  BY <1>1, WholeFrame

(* A write between Load and StartWatching is accounted for in missed.       *)
LEMMA WholeWrite ==
  ASSUME TypeOK, StartsFromAWholeCopy, NEW t \in Threads, NEW s \in Sections,
         NEW doc, NEW rec, Write(t, s, doc, rec)
  PROVE  StartsFromAWholeCopy'
<1>1. \A q \in Procs : KeepsLoaded(q)
  BY DEF Write, KeepsLoaded, TypeOK
<1> QED
  BY <1>1, WholeFrame

LEMMA WholeStep ==
  TypeOK /\ LifeCycle /\ StartsFromAWholeCopy /\ [Next]_vars
    => StartsFromAWholeCopy'
<1> SUFFICES ASSUME TypeOK, LifeCycle, StartsFromAWholeCopy, [Next]_vars
             PROVE  StartsFromAWholeCopy'
  OBVIOUS
<1>1. CASE UNCHANGED vars
  BY <1>1, WholeFrame DEF vars, KeepsLoaded
<1>2. ASSUME NEW p \in Procs, ProcStep(p) PROVE StartsFromAWholeCopy'
  <2>1. CASE Load(p)
    BY <2>1, WholeLoad
  <2>2. CASE StartWatching(p) \/ StartUnwatched(p) \/ Signal(p)
    BY <2>2, WholeFrame
    DEF StartWatching, StartUnwatched, Signal, KeepsLoaded, TypeOK
  <2>3. CASE FirstUse(p)
    BY <2>3, WholeFrame DEF FirstUse, ReadAll, KeepsLoaded, TypeOK
  <2>4. CASE Die(p)
    BY <2>4, WholeDown DEF Die
  <2>5. CASE ApplyEvent(p)
    <3>1. phase[p] # "loaded"
      BY <2>5 DEF ApplyEvent, LifeCycle
    <3> QED
      BY <2>5, <3>1, WholeFrame DEF ApplyEvent, KeepsLoaded, TypeOK
  <2>6. CASE Receive(p) \/ WatcherEnds(p)
    BY <2>6, WholeFrame DEF Receive, WatcherEnds, KeepsLoaded
  <2>7. ASSUME NEW s \in Sections, NEW sec, Edit(p, s, sec)
        PROVE  StartsFromAWholeCopy'
    BY <2>7, WholeFrame DEF Edit, InUse, Running, KeepsLoaded, TypeOK
  <2> QED
    BY <1>2, <2>1, <2>2, <2>3, <2>4, <2>5, <2>6, <2>7
    DEF ProcStep, SetValue, DeleteKey, DeleteSection
<1>3. ASSUME NEW t \in Threads, SaveStep(t) PROVE StartsFromAWholeCopy'
  <2>1. ProcOf[t] \in Procs
    BY ConstantsAssumption
  <2>2. ASSUME NEW s \in Sections, Upsert(t, s) \/ DeleteStored(t, s)
        PROVE  StartsFromAWholeCopy'
    BY <2>2, WholeWrite DEF Upsert, DeleteStored
  <2>3. ASSUME NEW s \in Sections, DeleteFails(t, s)
        PROVE  StartsFromAWholeCopy'
    BY <2>3, WholeFrame DEF DeleteFails, KeepsLoaded
  <2>4. CASE Return(t)
    BY <2>1, <2>4, WholeDown, WholeFrame DEF Return, KeepsLoaded
  <2> QED
    BY <1>3, <2>2, <2>3, <2>4 DEF SaveStep, EndSave, UpsertFails
<1>4. ASSUME NEW t \in Threads, BeginSave(t) \/ BeginExitSave(t)
      PROVE  StartsFromAWholeCopy'
  BY <1>4, WholeFrame DEF BeginSave, BeginExitSave, Begin, KeepsLoaded, TypeOK
<1> QED
  BY <1>1, <1>2, <1>3, <1>4 DEF Next

(* A process that comes up has every field of every section, whatever keys  *)
(* the sections were written under: a field it cannot decrypt keeps it      *)
(* down.                                                                    *)
THEOREM WholeCopyCorrect == Spec => []StartsFromAWholeCopy
<1>1. Init => StartsFromAWholeCopy
  BY DEF Init, StartsFromAWholeCopy
<1>2. IInv => TypeOK /\ LifeCycle
  BY DEF IInv
<1> QED
  BY <1>1, <1>2, WholeStep, IInvCorrect, PTL DEF Spec
=============================================================================
