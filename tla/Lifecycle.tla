------------------------------ MODULE Lifecycle ------------------------------
(***************************************************************************)
(* The process: opening the store under a master key, serving, stopping,   *)
(* closing the store, exiting, crashing, and starting again on the same    *)
(* directory.  Handlers that read, create and delete databases run beside  *)
(* main, and use the store's wrapping key and Pebble until they end.       *)
(***************************************************************************)
EXTENDS Naturals, FiniteSets

CONSTANTS
    Handler,    \* request goroutines
    Name,       \* database names
    Master,     \* master keys an operator may configure
    Salt,       \* store salts
    MaxBoots,   \* bound: starts of the process
    None,       \* no record, no metadata, no key
    Torn, Zero, \* the wrapping key while clear() overwrites it, and after
    Legacy      \* a record not written by this version of the server

(* The wrapping keys that HKDF derives.                                    *)
Derived == [master: Master, salt: Salt]

ASSUME LifecycleAssumption ==
    /\ MaxBoots \in Nat
    /\ None \notin Derived /\ Torn \notin Derived
    /\ Zero \notin Derived /\ Legacy \notin Derived
    /\ None \notin {Torn, Zero, Legacy} /\ Torn # Zero /\ Legacy \notin {Torn, Zero}

VARIABLES
    meta,       \* Pebble: the key that sealed the store metadata, or None
    recs,       \* Pebble: recs[n], the key that wrapped n's record, or None
    phase,      \* where main is; "down" when there is no process
    boots,      \* starts so far
    master,     \* the configured master key
    wrapKey,    \* store.wrappingKey
    stopping,   \* api.stopping
    conns,      \* connections may still carry requests and answers
    h,          \* h[c]: the handler on goroutine c
    acked,      \* history: names whose creation was answered and not undone
    undrained   \* history: run once went on to close the store without a drain

disk == <<meta, recs>>
proc == <<phase, boots, master, wrapKey, stopping, conns>>
vars == <<disk, proc, h, acked, undrained>>

-----------------------------------------------------------------------------
(* Keys.  HKDF is injective, and authenticated decryption succeeds only    *)
(* under the key that encrypted.  A key read while clear() overwrites it   *)
(* is neither the old nor the new one, and no other read repeats it.       *)
deriveWrapKey(m, s) == [master |-> m, salt |-> s]

Opens(key, box) == key = box /\ box \notin {Torn, Legacy}

(* Mutant: the verifier in the metadata is not checked.                    *)
openUnverified(m) == meta # None

openStoreMeta(m) == Opens(deriveWrapKey(m, meta.salt), meta)

(* Mutant: a store without metadata passes for an empty one.               *)
storeBare == meta = None

storeEmpty == meta = None /\ \A n \in Name : recs[n] = None

wrapDBKey(key) == key

unwrapDBKey(key, rec) == Opens(key, rec)

-----------------------------------------------------------------------------
(* Handlers.  Fields: the step to take, the operation, the database, the   *)
(* record read or made, the answer.                                        *)
Op == {"create", "read", "delete"}
Answers == {"created", "ok", "deleted", "database_exists", "database_not_found",
            "corrupt_data", "service_unavailable"}
Steps == {"idle", "arrived", "lock", "lookup", "auth", "wrap", "access", "reply"}

ASSUME AnswerAssumption == None \notin Answers

Idle == [pc |-> "idle", op |-> None, db |-> None, rec |-> None, out |-> None]

Active(c) == h[c].pc # "idle"

(* createDB and deleteDB hold the database lock over their Pebble calls.   *)
Locks(c) == h[c].op # "read" /\ h[c].pc \in {"lookup", "auth", "wrap", "access"}

Init ==
    /\ meta = None
    /\ recs \in [Name -> {None, Legacy}]
    /\ phase = "down" /\ boots = 0 /\ master \in Master /\ wrapKey = None
    /\ stopping = FALSE /\ conns = FALSE
    /\ h = [c \in Handler |-> Idle]
    /\ acked = {} /\ undrained = FALSE

Up == phase \notin {"down", "opening"}

PebbleClosed == phase = "closed"

To(c, pc) == h' = [h EXCEPT ![c].pc = pc]

Reply(c, out) == h' = [h EXCEPT ![c].pc = "reply", ![c].out = out]

Keep == UNCHANGED <<disk, proc, acked, undrained>>

(* A request is read from a connection.                                    *)
Arrive(c) ==
    /\ Up /\ conns /\ ~Active(c)
    /\ \E op \in Op, n \in Name :
         h' = [h EXCEPT ![c] = [Idle EXCEPT !.pc = "arrived", !.op = op, !.db = n]]
    /\ Keep

(* The stopping flag is looked at once, before the handler starts.         *)
rejectStopping(c) ==
    /\ h[c].pc = "arrived"
    /\ \/ stopping /\ Reply(c, "service_unavailable")
       \/ ~stopping /\ To(c, "lock")
    /\ Keep

(* The store's first step.  A writer may wait for the lock until long      *)
(* after stopping is set.                                                  *)
dbLock(c) ==
    /\ h[c].pc = "lock"
    /\ h[c].op # "read" => \A d \in Handler : h[d].db = h[c].db => ~Locks(d)
    /\ To(c, "lookup")
    /\ Keep

(* A call on a closed Pebble panics; recover answers for it.  Any call may *)
(* also fail.                                                              *)
recover(c) ==
    /\ h[c].pc \in {"lookup", "access"}
    /\ Reply(c, "service_unavailable")
    /\ Keep

(* hasDB and databaseKey: read the record, then authenticate it.           *)
lookup(c) ==
    /\ h[c].pc = "lookup" /\ ~PebbleClosed
    /\ LET rec == recs[h[c].db] IN
         \/ /\ rec # None
            /\ h' = [h EXCEPT ![c].pc = "auth", ![c].rec = rec]
         \/ rec = None /\ h[c].op = "create" /\ To(c, "wrap")
         \/ rec = None /\ h[c].op # "create" /\ Reply(c, "database_not_found")
    /\ Keep

authDBRecord(c) ==
    /\ h[c].pc = "auth"
    /\ \/ ~unwrapDBKey(wrapKey, h[c].rec) /\ Reply(c, "corrupt_data")
       \/ /\ unwrapDBKey(wrapKey, h[c].rec)
          /\ IF h[c].op = "create" THEN Reply(c, "database_exists") ELSE To(c, "access")
    /\ Keep

makeDBRecord(c) ==
    /\ h[c].pc = "wrap"
    /\ h' = [h EXCEPT ![c].pc = "access", ![c].rec = wrapDBKey(wrapKey)]
    /\ Keep

(* The second Pebble call: the documents, or the batch.  A batch that is   *)
(* in place may be answered with an error, as closing it may fail.         *)
Access(c) ==
    /\ h[c].pc = "access" /\ ~PebbleClosed
    /\ \/ h[c].op = "read" /\ Reply(c, "ok") /\ UNCHANGED <<recs, acked>>
       \/ /\ h[c].op = "create"
          /\ recs' = [recs EXCEPT ![h[c].db] = h[c].rec]
          /\ \E out \in {"created", "service_unavailable"} : Reply(c, out)
          /\ UNCHANGED acked
       \/ /\ h[c].op = "delete"
          /\ recs' = [recs EXCEPT ![h[c].db] = None]
          /\ acked' = acked \ {h[c].db}
          /\ \E out \in {"deleted", "service_unavailable"} : Reply(c, out)
    /\ UNCHANGED <<meta, proc, undrained>>

(* The answer is written, and reaches the client if the connection is open.*)
(* A name counts as answered for unless it has been deleted since.         *)
Answer(c) ==
    /\ h[c].pc = "reply"
    /\ h' = [h EXCEPT ![c] = Idle]
    /\ acked' = IF conns /\ h[c].out = "created" /\ recs[h[c].db] = h[c].rec
                THEN acked \cup {h[c].db} ELSE acked
    /\ UNCHANGED <<disk, proc, undrained>>

Handle(c) ==
    \/ Arrive(c) \/ rejectStopping(c) \/ dbLock(c) \/ recover(c) \/ lookup(c)
    \/ authDBRecord(c) \/ makeDBRecord(c) \/ Access(c) \/ Answer(c)

-----------------------------------------------------------------------------
(* Main.                                                                   *)
Still == UNCHANGED <<h, acked, undrained>>

(* pebble.Open; what the directory holds is seen by the next step.         *)
openStore ==
    /\ phase = "down" /\ boots < MaxBoots
    /\ \E m \in Master : master' = m
    /\ phase' = "opening" /\ boots' = boots + 1
    /\ UNCHANGED <<disk, wrapKey, stopping, conns>> /\ Still

Serve(key) ==
    /\ phase' = "serving" /\ wrapKey' = key /\ conns' = TRUE
    /\ UNCHANGED <<boots, master, stopping>>

Refuse ==
    /\ phase' = "down"
    /\ UNCHANGED <<boots, master, wrapKey, stopping, conns>>

(* Mutant: the metadata is never written.                                  *)
initUnsaved ==
    /\ phase = "opening" /\ meta = None
    /\ \/ ~storeEmpty /\ Refuse
       \/ storeEmpty /\ \E s \in Salt : Serve(deriveWrapKey(master, s))
    /\ UNCHANGED disk /\ Still

(* A new store gets a salt and metadata, synced before anything is served. *)
initStoreMeta ==
    /\ phase = "opening" /\ meta = None
    /\ \/ ~storeEmpty /\ Refuse /\ UNCHANGED meta
       \/ /\ storeEmpty
          /\ \E s \in Salt : LET key == deriveWrapKey(master, s) IN
               meta' = key /\ Serve(key)
    /\ UNCHANGED recs /\ Still

initStoreCrypto ==
    /\ phase = "opening" /\ meta # None
    /\ \/ openStoreMeta(master) /\ Serve(deriveWrapKey(master, meta.salt))
       \/ ~openStoreMeta(master) /\ Refuse
    /\ UNCHANGED disk /\ Still

Signal ==
    /\ phase = "serving" /\ phase' = "signalled"
    /\ UNCHANGED <<disk, boots, master, wrapKey, stopping, conns>> /\ Still

(* ListenAndServe returns: connections that were accepted stay open.       *)
ServeError ==
    /\ phase = "serving" /\ phase' = "closing" /\ undrained' = TRUE
    /\ UNCHANGED <<disk, boots, master, wrapKey, stopping, conns, h, acked>>

stop ==
    /\ phase = "signalled"
    /\ phase' = "draining" /\ stopping' = TRUE
    /\ UNCHANGED <<disk, boots, master, wrapKey, conns>> /\ Still

(* Mutant: Shutdown does not wait for handlers.                            *)
DrainedNow ==
    /\ phase = "draining"
    /\ phase' = "closing" /\ conns' = FALSE
    /\ UNCHANGED <<disk, boots, master, wrapKey, stopping>> /\ Still

(* Shutdown closes the listener and waits until no connection has work.    *)
Drained ==
    /\ phase = "draining" /\ \A c \in Handler : ~Active(c)
    /\ phase' = "closing" /\ conns' = FALSE
    /\ UNCHANGED <<disk, boots, master, wrapKey, stopping>> /\ Still

(* Mutant: Shutdown has no deadline.                                       *)
NeverGiveUp ==
    /\ phase = "draining" /\ \A c \in Handler : ~Active(c)
    /\ phase' = "closing" /\ conns' = FALSE /\ undrained' = TRUE
    /\ UNCHANGED <<disk, boots, master, wrapKey, stopping, h, acked>>

(* Shutdown gives up after shutdownTimeout: srv.Close closes connections,  *)
(* not handlers.                                                           *)
GiveUp ==
    /\ phase = "draining"
    /\ phase' = "closing" /\ conns' = FALSE /\ undrained' = TRUE
    /\ UNCHANGED <<disk, boots, master, wrapKey, stopping, h, acked>>

(* store.close: clear(wrappingKey), then Pebble.                           *)
Clear ==
    /\ \/ phase = "closing" /\ phase' = "clearing" /\ wrapKey' = Torn
       \/ phase = "clearing" /\ phase' = "cleared" /\ wrapKey' = Zero
    /\ UNCHANGED <<disk, boots, master, stopping, conns>> /\ Still

ClosePebble ==
    /\ phase = "cleared" /\ phase' = "closed"
    /\ UNCHANGED <<disk, boots, master, wrapKey, stopping, conns>> /\ Still

(* The process ends, with every handler in it.                             *)
End ==
    /\ phase' = "down" /\ wrapKey' = None /\ stopping' = FALSE /\ conns' = FALSE
    /\ h' = [c \in Handler |-> Idle]
    /\ UNCHANGED <<disk, boots, master, acked, undrained>>

Exit == phase = "closed" /\ End

Crash == phase # "down" /\ End

Shutdown == stop \/ Drained \/ GiveUp \/ Clear \/ ClosePebble \/ Exit

Run == openStore \/ initStoreMeta \/ initStoreCrypto \/ Signal \/ ServeError \/ Shutdown

(* Past MaxBoots the operator leaves the process down.                     *)
Rest == phase = "down" /\ boots = MaxBoots /\ UNCHANGED vars

Next == Run \/ Crash \/ Rest \/ \E c \in Handler : Handle(c)

Spec == Init /\ [][Next]_vars

(* Main is never blocked: each wait of run() has a timer, so its steps are *)
(* fair.  Nothing is assumed of handlers.                                  *)
FairSpec == Spec /\ WF_vars(Shutdown)

-----------------------------------------------------------------------------
Keys == Derived \cup {Torn, Zero}

(* Every variable has its type: records are wrapped with a derived key, or *)
(* one that clear() has been at, never with a master key (wrapDBKey).      *)
TypeOK ==
    /\ meta \in Derived \cup {None}
    /\ recs \in [Name -> Keys \cup {None, Legacy}]
    /\ phase \in {"down", "opening", "serving", "signalled", "draining",
                  "closing", "clearing", "cleared", "closed"}
    /\ boots \in 0..MaxBoots /\ master \in Master
    /\ wrapKey \in Keys \cup {None}
    /\ stopping \in BOOLEAN /\ conns \in BOOLEAN /\ undrained \in BOOLEAN
    /\ h \in [Handler -> [pc: Steps, op: Op \cup {None}, db: Name \cup {None},
                          rec: Keys \cup {None, Legacy}, out: Answers \cup {None}]]
    /\ acked \subseteq Name

(* Every database record of a store with metadata can be opened with the   *)
(* key that metadata vouches for, across crashes, restarts and wrong       *)
(* master keys, as long as every store.close has waited for a drain.       *)
Readable ==
    ~undrained /\ meta # None => \A n \in Name : recs[n] \in {None, meta}

(* A database whose creation was answered 201 is there until a deletion    *)
(* commits, and is readable unless a close did not wait for a drain.       *)
AnsweredKept ==
    \A n \in acked : recs[n] # None /\ (undrained \/ Opens(meta, recs[n]))

(* While every store.close waits for a drain, no request is told that data *)
(* is corrupt: requests end before the wrapping key is cleared.            *)
NoFalseAlarm ==
    ~undrained => \A c \in Handler : h[c].out # "corrupt_data"

(* initStoreCrypto: a process started with another master key than the one *)
(* the store was made with, or on a store without metadata that is not     *)
(* empty, changes nothing on disk.                                         *)
ForeignKept ==
    [][(IF meta = None THEN ~storeEmpty ELSE meta.master # master) => UNCHANGED disk]_vars

(* run: once a signal arrives the process ends, whatever handlers do.      *)
SignalEnds == phase = "signalled" ~> phase = "down"

=============================================================================
