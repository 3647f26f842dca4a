---------------------------- MODULE MongoStorage ----------------------------
(***************************************************************************)
(* The encrypted rclone configuration shared through one MongoDB           *)
(* collection: src/apps/web-api/rclone/configs/mongodb/mongoconfig.go and  *)
(* the life cycle main.go (Web API) and runtime.go (CLI) give it.          *)
(*                                                                         *)
(* Every process keeps a decrypted copy of the collection in memory.  Save *)
(* writes the whole copy back, section by section; a change stream carries *)
(* every write back into the copies of the processes that watch.  The      *)
(* steps of a Save interleave with the writes of other processes; the      *)
(* RWMutex of a process keeps its mutators and its watcher out meanwhile.  *)
(*                                                                         *)
(* A section is a partial map from keys to values, a document the same map *)
(* with every value encrypted under the writer's key.  Nonces are left     *)
(* out: a fresh encryption is a new document even of an old value, which   *)
(* Emits takes into account.                                               *)
(***************************************************************************)
EXTENDS Naturals, Sequences, FiniteSets

CONSTANTS
  Procs,      \* processes: Web API instances and CLI runs
  WebApis,    \* those that save on shutdown (main.go); the others are CLI runs
  Threads,    \* goroutines that may be inside Save, each of one process
  ProcOf,     \* the process of a goroutine
  Sections,   \* section names (the _id of a document)
  Keys,       \* keys of a section
  Values,     \* plaintext values
  EncKeys,    \* encryption keys
  EncKey,     \* the key a process was configured with
  Absent,     \* "no such section" and "no such document"
  MaxEdits,   \* bounds on a behaviour: the number of changes to copies
  MaxWrites   \*   in memory, and the writes before the last Save begins

PartialFn(S, T) == UNION {[D -> T] : D \in SUBSET S}

Section == PartialFn(Keys, Values)
Cipher  == [enc : EncKeys, val : Values]
Doc     == PartialFn(Keys, Cipher)
Event   == [id : Sections, doc : Doc \cup {Absent}, by : Procs]

ASSUME ConstantsAssumption ==
  /\ WebApis \subseteq Procs
  /\ ProcOf \in [Threads -> Procs]
  /\ EncKey \in [Procs -> EncKeys]
  /\ Absent \notin Section \cup Doc
  /\ MaxEdits \in Nat /\ MaxWrites \in Nat

VARIABLES
  db,      \* the collection
  phase,   \* where the process is in main.go / runtime.go
  used,    \* whether rclone has loaded the store through its config package
  watch,   \* its change-stream goroutine
  waiting, \* the processes whose change-stream goroutine waits for mu.Lock
  stream,  \* change events committed but not yet applied by that goroutine
  cache,   \* MongoStorage.data
  save,    \* the Save each goroutine is in
  count,   \* edits and writes so far, for the bounds
  edited,  \* history: sections changed in memory since last read from the DB
  missed   \* history: sections written between Load and StartWatching

vars == <<db, phase, used, watch, waiting, stream, cache, save, count, edited, missed>>

(* A Save in progress: sections still to upsert, ids found at its start and *)
(* not yet accounted for; history: sections other processes wrote since,    *)
(* ids not listed or whose DeleteOne failed, whether the copy was caught up *)
(* at the start; and whether it is the Save main() defers to shutdown.      *)
SaveRec == [active : BOOLEAN, final : BOOLEAN, synced : BOOLEAN,
            todo : SUBSET Sections, existing : SUBSET Sections,
            touched : SUBSET Sections, failed : SUBSET Sections]
Idle == [active |-> FALSE, final |-> FALSE, synced |-> FALSE, todo |-> {},
         existing |-> {}, touched |-> {}, failed |-> {}]

Count == [edits : 0..MaxEdits, writes : Nat]

Running == {"started", "draining", "exiting"}
Phases  == {"down", "loaded"} \cup Running
Watches == {"off", "on", "cancelled"}

TypeOK ==
  /\ db \in [Sections -> Doc \cup {Absent}]
  /\ phase \in [Procs -> Phases]
  /\ used \in [Procs -> BOOLEAN]
  /\ watch \in [Procs -> Watches] /\ waiting \subseteq Procs
  /\ stream \in [Procs -> Seq(Event)]
  /\ cache \in [Procs -> [Sections -> Section \cup {Absent}]]
  /\ save \in [Threads -> SaveRec]
  /\ count \in Count
  /\ edited \in [Procs -> SUBSET Sections]
  /\ missed \in [Procs -> SUBSET Sections]

-----------------------------------------------------------------------------
(* Encryption and decryption of a whole section.  GCM authenticates, so a   *)
(* field written under another key does not decrypt.                        *)
Encrypt(p, sec) ==
  IF sec = Absent THEN Absent
  ELSE [k \in DOMAIN sec |-> [enc |-> EncKey[p], val |-> sec[k]]]

Readable(p, doc) == {k \in DOMAIN doc : doc[k].enc = EncKey[p]}

(* Mutant of Decrypt: the stored bytes are taken for the values.            *)
DecryptNothing(p, doc) == doc

(* applyFullDocument: fields that do not decrypt are skipped.               *)
Decrypt(p, doc) ==
  IF doc = Absent THEN Absent
  ELSE [k \in Readable(p, doc) |-> doc[k].val]

(* Mutant of Loadable: Load skips what it cannot decrypt.                   *)
LoadableAnyway(p) == TRUE

(* Load: the first field that does not decrypt fails the whole Load.        *)
Loadable(p) ==
  \A s \in Sections : db[s] # Absent => Readable(p, db[s]) = DOMAIN db[s]

Present(col) == {s \in Sections : col[s] # Absent}

(* Mutant of LockFree: mutators and watcher do not take the lock.           *)
LockFreeAlways(p) == TRUE

(* No goroutine of p holds the read lock of mu.                             *)
LockFree(p) == \A t \in Threads : ProcOf[t] = p => ~save[t].active

(* Mutant of ReadFree: readers overtake a waiting writer.                   *)
ReadFreeAlways(p) == TRUE

(* mu.RLock waits while a writer waits.  Of the writers the model has only  *)
(* the watcher wait; an edit or a Load takes the lock when it is free.      *)
ReadFree(p) == p \notin waiting

(* rclone hands out the store once it has loaded it; migrate (CLI) takes it *)
(* before that.  Background jobs go on while a Web API drains and exits.    *)
InUse(p) == phase[p] \in Running /\ (used[p] \/ p \notin WebApis)

Init ==
  /\ db \in [Sections -> {Absent} \cup
               {Encrypt(p, sec) : p \in Procs, sec \in Section}]
  /\ phase = [p \in Procs |-> "down"]
  /\ used = [p \in Procs |-> FALSE]
  /\ watch = [p \in Procs |-> "off"] /\ waiting = {}
  /\ stream = [p \in Procs |-> <<>>]
  /\ cache = [p \in Procs |-> [s \in Sections |-> Absent]]
  /\ save = [t \in Threads |-> Idle]
  /\ count = [edits |-> 0, writes |-> 0]
  /\ edited = [p \in Procs |-> {}]
  /\ missed = [p \in Procs |-> {}]

-----------------------------------------------------------------------------
(* Life cycle.                                                              *)

(* The new map replaces s.data in one step: the lock is held from the query *)
(* to the assignment, and one batch answers the query.                      *)
ReadAll(p) ==
  /\ Loadable(p)
  /\ cache' = [cache EXCEPT ![p] = [s \in Sections |-> Decrypt(p, db[s])]]
  /\ edited' = [edited EXCEPT ![p] = {}]
  /\ missed' = [missed EXCEPT ![p] = {}]

(* The Load at startup; when it fails the process ends and stays "down".    *)
Load(p) ==
  /\ phase[p] = "down"
  /\ ReadAll(p)
  /\ phase' = [phase EXCEPT ![p] = "loaded"]
  /\ UNCHANGED <<db, used, watch, waiting, stream, save, count>>

StartWatching(p) ==
  /\ phase[p] = "loaded"
  /\ phase' = [phase EXCEPT ![p] = "started"]
  /\ watch' = [watch EXCEPT ![p] = "on"]
  /\ UNCHANGED <<db, used, waiting, stream, cache, save, count, edited, missed>>

(* The CLI goes on with a warning when it cannot watch.                     *)
StartUnwatched(p) ==
  /\ phase[p] = "loaded" /\ p \notin WebApis
  /\ phase' = [phase EXCEPT ![p] = "started"]
  /\ UNCHANGED <<db, used, watch, waiting, stream, cache, save, count, edited, missed>>

(* SetData made rclone forget that the store is loaded: the first access    *)
(* through rclone's config package loads it again.                          *)
FirstUse(p) ==
  /\ phase[p] \in {"started", "draining"} /\ ~used[p] /\ LockFree(p)
  /\ ReadAll(p)
  /\ used' = [used EXCEPT ![p] = TRUE]
  /\ UNCHANGED <<db, phase, watch, waiting, stream, save, count>>

(* SIGTERM or SIGINT: the watcher's context derives from the cancelled one. *)
Signal(p) ==
  /\ p \in WebApis /\ phase[p] = "started"
  /\ phase' = [phase EXCEPT ![p] = "draining"]
  /\ watch' = [watch EXCEPT ![p] = IF @ = "on" THEN "cancelled" ELSE @]
  /\ UNCHANGED <<db, used, waiting, stream, cache, save, count, edited, missed>>

(* The process ends and its memory is lost; a Save it was in stays half     *)
(* done.                                                                    *)
Down(p) ==
  /\ phase' = [phase EXCEPT ![p] = "down"]
  /\ used' = [used EXCEPT ![p] = FALSE]
  /\ watch' = [watch EXCEPT ![p] = "off"] /\ waiting' = waiting \ {p}
  /\ stream' = [stream EXCEPT ![p] = <<>>]
  /\ cache' = [cache EXCEPT ![p] = [s \in Sections |-> Absent]]
  /\ save' = [t \in Threads |-> IF ProcOf[t] = p THEN Idle ELSE save[t]]
  /\ edited' = [edited EXCEPT ![p] = {}]
  /\ missed' = [missed EXCEPT ![p] = {}]

(* A crash, log.Fatalf, or the exit of a CLI run, which does not save.      *)
Die(p) == phase[p] # "down" /\ Down(p) /\ UNCHANGED <<db, count>>

-----------------------------------------------------------------------------
(* Operations on the copy in memory: each holds the write lock.             *)

Edit(p, s, sec) ==
  /\ InUse(p) /\ LockFree(p) /\ count.edits < MaxEdits
  /\ cache' = [cache EXCEPT ![p][s] = sec]
  /\ edited' = [edited EXCEPT ![p] = @ \cup {s}]
  /\ count' = [count EXCEPT !.edits = @ + 1]
  /\ UNCHANGED <<db, phase, used, watch, waiting, stream, save, missed>>

SetValue(p, s, k, v) ==
  Edit(p, s, [j \in {k} \cup (IF cache[p][s] = Absent THEN {}
                              ELSE DOMAIN cache[p][s])
                |-> IF j = k THEN v ELSE cache[p][s][j]])

(* Deleting the last key removes the section.                               *)
DeleteKey(p, s, k) ==
  /\ cache[p][s] # Absent /\ k \in DOMAIN cache[p][s]
  /\ Edit(p, s, IF DOMAIN cache[p][s] = {k} THEN Absent
                ELSE [j \in DOMAIN cache[p][s] \ {k} |-> cache[p][s][j]])

DeleteSection(p, s) == cache[p][s] # Absent /\ Edit(p, s, Absent)

-----------------------------------------------------------------------------
(* Save, one step per call of the driver.                                   *)

(* The bound on Saves: they begin while there are not too many writes yet.  *)
(* Saves that write nothing may follow each other without end.              *)
RoomForSave == count.writes + Cardinality({t \in Threads : save[t].active}) < MaxWrites

(* The lock is taken and the existing ids are listed.  The error of the     *)
(* cursor is not looked at: a list cut short passes for the whole.          *)
Begin(t, final) == \E listed \in SUBSET Present(db) :
  LET p == ProcOf[t] IN
  /\ ~save[t].active /\ ReadFree(p) /\ RoomForSave
  /\ save' = [save EXCEPT ![t] =
       [active |-> TRUE, final |-> final,
        synced |-> watch[p] = "on" /\ stream[p] = <<>> /\ missed[p] = {},
        todo |-> Present(cache[p]), existing |-> listed,
        touched |-> {}, failed |-> Present(db) \ (listed \cup Present(cache[p]))]]

BeginSave(t) ==
  /\ InUse(ProcOf[t])
  /\ Begin(t, FALSE)
  /\ UNCHANGED <<db, phase, used, watch, waiting, stream, cache, count, edited, missed>>

(* The server has drained: the deferred StopWatching and Save.              *)
BeginExitSave(t) ==
  /\ phase[ProcOf[t]] = "draining"
  /\ phase' = [phase EXCEPT ![ProcOf[t]] = "exiting"]
  /\ Begin(t, TRUE)
  /\ UNCHANGED <<db, used, watch, waiting, stream, cache, count, edited, missed>>

(* Replacing an empty document by itself and deleting a missing one change  *)
(* nothing, and only a change is announced.                                 *)
Emits(s, doc) == ~(db[s] = doc /\ doc \in {Absent, <<>>})

(* The collection takes doc for s from process p; rec is what the writing   *)
(* goroutine t makes of its Save record.                                    *)
Write(t, s, doc, rec) ==
  LET p == ProcOf[t] IN
  /\ count' = [count EXCEPT !.writes = @ + 1]
  /\ db' = [db EXCEPT ![s] = doc]
  /\ stream' = [q \in Procs |->
       IF watch[q] = "on" /\ Emits(s, doc)
         THEN Append(stream[q], [id |-> s, doc |-> doc, by |-> p])
         ELSE stream[q]]
  /\ missed' = [q \in Procs |->
       IF phase[q] = "loaded" THEN missed[q] \cup {s} ELSE missed[q]]
  /\ save' = [u \in Threads |->
       IF u = t THEN rec
       ELSE IF save[u].active /\ ProcOf[u] # p
         THEN [save[u] EXCEPT !.touched = @ \cup {s}]
         ELSE save[u]]
  /\ UNCHANGED <<phase, used, watch, waiting, cache, edited>>

(* Mutant of Upsert: the written section is not accounted for.              *)
UpsertNotAccounted(t, s) ==
  /\ save[t].active /\ s \in save[t].todo
  /\ Write(t, s, Encrypt(ProcOf[t], cache[ProcOf[t]][s]),
           [save[t] EXCEPT !.todo = @ \ {s}])

Upsert(t, s) ==
  /\ save[t].active /\ s \in save[t].todo
  /\ Write(t, s, Encrypt(ProcOf[t], cache[ProcOf[t]][s]),
           [save[t] EXCEPT !.todo = @ \ {s}, !.existing = @ \ {s}])

(* Ids that were listed but are not in memory, once all upserts are done.   *)
DeleteStored(t, s) ==
  /\ save[t].active /\ save[t].todo = {} /\ s \in save[t].existing
  /\ Write(t, s, Absent, [save[t] EXCEPT !.existing = @ \ {s}])

(* The error of DeleteOne is dropped and the loop goes on.                  *)
DeleteFails(t, s) ==
  /\ save[t].active /\ save[t].todo = {} /\ s \in save[t].existing
  /\ save' = [save EXCEPT ![t] =
       [save[t] EXCEPT !.existing = @ \ {s}, !.failed = @ \cup {s}]]
  /\ UNCHANGED <<db, phase, used, watch, waiting, stream, cache, count, edited, missed>>

(* Save returns; after the deferred one the process ends.                   *)
Return(t) ==
  IF save[t].final
    THEN Down(ProcOf[t]) /\ UNCHANGED <<db, count>>
    ELSE /\ save' = [save EXCEPT ![t] = Idle]
         /\ UNCHANGED <<db, phase, used, watch, waiting, stream, cache, count, edited, missed>>

EndSave(t) ==
  save[t].active /\ save[t].todo = {} /\ save[t].existing = {} /\ Return(t)

(* ReplaceOne reports an error, whether it took effect or not: Save returns *)
(* it at once and leaves the rest.                                          *)
UpsertFails(t) ==
  save[t].active /\ save[t].todo \cup save[t].existing # {} /\ Return(t)

-----------------------------------------------------------------------------
(* The change-stream goroutine.                                             *)

(* Next returns an event: the goroutine asks for the write lock.  After a   *)
(* cancel the driver still hands out what it has fetched.                   *)
Receive(p) ==
  /\ watch[p] # "off" /\ stream[p] # <<>> /\ p \notin waiting
  /\ waiting' = waiting \cup {p}
  /\ UNCHANGED <<db, phase, used, watch, stream, cache, save, count, edited, missed>>

(* Mutant of ApplyEvent: only full documents are applied.                   *)
ApplyEventNoDelete(p) ==
  LET e == Head(stream[p]) IN
  /\ watch[p] # "off" /\ stream[p] # <<>> /\ p \in waiting /\ LockFree(p)
  /\ waiting' = waiting \ {p}
  /\ cache' = [cache EXCEPT ![p][e.id] =
       IF e.doc = Absent THEN @ ELSE Decrypt(p, e.doc)]
  /\ stream' = [stream EXCEPT ![p] = Tail(@)]
  /\ edited' = [edited EXCEPT ![p] = @ \ {e.id}]
  /\ missed' = [missed EXCEPT ![p] = @ \ {e.id}]
  /\ UNCHANGED <<db, phase, used, watch, save, count>>

(* The event is applied under the write lock.                               *)
ApplyEvent(p) ==
  LET e == Head(stream[p]) IN
  /\ watch[p] # "off" /\ stream[p] # <<>> /\ p \in waiting /\ LockFree(p)
  /\ waiting' = waiting \ {p}
  /\ cache' = [cache EXCEPT ![p][e.id] = Decrypt(p, e.doc)]
  /\ stream' = [stream EXCEPT ![p] = Tail(@)]
  /\ edited' = [edited EXCEPT ![p] = @ \ {e.id}]
  /\ missed' = [missed EXCEPT ![p] = @ \ {e.id}]
  /\ UNCHANGED <<db, phase, used, watch, save, count>>

(* Next returns false, on a cancel or an error: the loop ends, nobody       *)
(* starts it again, and what was not fetched is lost.                       *)
WatcherEnds(p) ==
  /\ watch[p] # "off" /\ p \notin waiting
  /\ watch' = [watch EXCEPT ![p] = "off"]
  /\ stream' = [stream EXCEPT ![p] = <<>>]
  /\ UNCHANGED <<db, phase, used, waiting, cache, save, count, edited, missed>>

-----------------------------------------------------------------------------
ProcStep(p) ==
  \/ Load(p) \/ StartWatching(p) \/ StartUnwatched(p) \/ FirstUse(p)
  \/ Signal(p) \/ Die(p)
  \/ Receive(p) \/ ApplyEvent(p) \/ WatcherEnds(p)
  \/ \E s \in Sections, k \in Keys :
       DeleteKey(p, s, k) \/ \E v \in Values : SetValue(p, s, k, v)
  \/ \E s \in Sections : DeleteSection(p, s)

SaveStep(t) ==
  \/ \E s \in Sections : Upsert(t, s) \/ DeleteStored(t, s) \/ DeleteFails(t, s)
  \/ EndSave(t) \/ UpsertFails(t)

Next ==
  \/ \E p \in Procs : ProcStep(p)
  \/ \E t \in Threads : SaveStep(t) \/ BeginSave(t) \/ BeginExitSave(t)

Spec == Init /\ [][Next]_vars

(* A goroutine inside Save goes on, and so does the watcher when it can; it *)
(* may have to wait for the lock, but no longer than for the Saves that     *)
(* were under way when it asked.                                            *)
Fairness ==
  /\ \A t \in Threads : WF_vars(SaveStep(t))
  /\ \A p \in Procs : WF_vars(Receive(p)) /\ WF_vars(ApplyEvent(p))

FairSpec == Spec /\ Fairness

-----------------------------------------------------------------------------
(* Properties.                                                              *)

Pending(p, s) == {i \in DOMAIN stream[p] : stream[p][i].id = s}

(* The newest pending event of s announces what the collection holds now;   *)
(* with none pending, the copy of s is what the collection decrypts to,     *)
(* except for the sections in exempt.                                       *)
UpToDate(p, s, exempt) ==
  IF Pending(p, s) = {}
    THEN s \in exempt \/ cache[p][s] = Decrypt(p, db[s])
    ELSE \A i \in Pending(p, s) :
           (\A j \in Pending(p, s) : j <= i) => stream[p][i].doc = db[s]

(* Once rclone has loaded the store, a process that still watches has, in   *)
(* its copy or in the events on their way, the latest state of every        *)
(* section it did not edit itself: the second Load closes the window        *)
(* between main()'s Load and StartWatching, and no order of Saves, events   *)
(* and edits opens it again.                                                *)
WatchedCopyTracksDb ==
  \A p \in Procs : watch[p] = "on" /\ used[p] =>
    \A s \in Sections : UpToDate(p, s, edited[p])

(* Save writes one consistent copy: whatever it has dealt with so far is in *)
(* the collection as the memory has it, unless another process wrote the    *)
(* section since Save began, or a delete was missed (id not listed,         *)
(* DeleteOne failed).  With nothing left to do this is every section.       *)
SaveWritesTheCopy ==
  \A t \in Threads : save[t].active =>
    LET p == ProcOf[t] IN
    \A s \in Sections \ save[t].touched :
      IF cache[p][s] = Absent
        THEN s \in save[t].existing \cup save[t].failed \/ db[s] = Absent
        ELSE s \in save[t].todo \/ db[s] = Encrypt(p, cache[p][s])

(* A Save begun by a process that watches and has applied every event       *)
(* deletes only sections it removed itself, and leaves the others as they   *)
(* were, except for what other processes write while it runs.               *)
CaughtUpSaveKeepsOthers ==
  \A t \in Threads : save[t].active /\ save[t].synced =>
    LET p == ProcOf[t] IN
    \A s \in Sections \ edited[p] :
      /\ s \in save[t].existing => s \in save[t].todo
      /\ s \in save[t].touched \/ cache[p][s] = Decrypt(p, db[s])

(* Load is all or nothing: a process that comes up has every field of every *)
(* section, even when another process writes under another key; a field it  *)
(* cannot decrypt keeps it down instead of vanishing from its copy, from    *)
(* which a later Save would erase it.                                       *)
StartsFromAWholeCopy ==
  \A p \in Procs : phase[p] = "loaded" =>
    \A s \in Sections \ missed[p] :
      IF db[s] = Absent THEN cache[p][s] = Absent
      ELSE cache[p][s] = [k \in DOMAIN db[s] |-> db[s][k].val]

(* When the collection stops changing, a process that keeps watching ends   *)
(* up with what it holds, but for its own edits: neither Saves that overlap *)
(* without end nor the order of events leave it behind for ever.            *)
WatcherCatchesUp ==
  \A p \in Procs :
    <>[](watch[p] = "on" /\ used[p]) /\ <>[][UNCHANGED db]_vars =>
      <>[](\A s \in Sections :
             s \in edited[p] \/ cache[p][s] = Decrypt(p, db[s]))

(* "Delete any sections that were removed from memory"                      *)
(* (mongoconfig.go:183): what Save deletes, this process has removed.       *)
DeletesOnlyWhatWasRemoved ==
  [][\A t \in Threads, s \in Sections :
       DeleteStored(t, s) => s \in edited[ProcOf[t]]]_vars

(* The watcher "propagates external changes" (mongoconfig.go:291): the      *)
(* process's own writes coming back change nothing in its memory.           *)
OnlyExternalChangesPropagate ==
  [][\A p \in Procs :
       ApplyEvent(p) /\ Head(stream[p]).by = p => cache' = cache]_vars

(* "Documents deleted from memory are also deleted from MongoDB"            *)
(* (mongoconfig.go:137), when Save returns without an error.                *)
SuccessfulSaveDeletes ==
  \A t \in Threads :
    save[t].active /\ save[t].todo = {} /\ save[t].existing = {} =>
      \A s \in Sections \ save[t].touched :
        cache[ProcOf[t]][s] = Absent => db[s] = Absent
=============================================================================
