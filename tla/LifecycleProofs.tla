--------------------------- MODULE LifecycleProofs ---------------------------
(***************************************************************************)
(* Proofs about Lifecycle, for any number of handlers, databases, master   *)
(* keys, salts and starts of the process.                                  *)
(***************************************************************************)
EXTENDS Lifecycle, TLAPS

(* While the process is up the store has metadata, made with the master    *)
(* key it runs under, and until close the wrapping key is the one that     *)
(* sealed them.                                                            *)
KeyHeld ==
    /\ Up => meta # None /\ meta.master = master /\ wrapKey # None
    /\ phase \in {"serving", "signalled", "draining", "closing"} => wrapKey = meta
    /\ acked # {} => meta # None

(* There are no handlers without a process, and after a drain there are    *)
(* neither handlers nor connections to bring new ones.                     *)
Rested ==
    /\ \A c \in Handler : h[c].pc = "idle" => h[c] = Idle
    /\ ~Up => ~conns /\ \A c \in Handler : h[c].pc = "idle"
    /\ ~undrained /\ phase \in {"closing", "clearing", "cleared", "closed"} =>
          ~conns /\ \A c \in Handler : h[c].pc = "idle"

(* What a handler holds.                                                   *)
Pending ==
    \A c \in Handler :
        /\ h[c].pc # "idle" => h[c].db \in Name /\ h[c].op \in Op
        /\ h[c].pc # "reply" => h[c].out = None
        /\ h[c].pc = "auth" => undrained \/ h[c].rec = meta
        /\ h[c].pc = "access" /\ h[c].op = "create" =>
              h[c].rec # None /\ (undrained \/ h[c].rec = meta)
        /\ h[c].out = "created" => h[c].rec # None /\ (undrained \/ h[c].rec = meta)

Inv ==
    /\ TypeOK /\ KeyHeld /\ Rested /\ Pending
    /\ Readable /\ AnsweredKept /\ NoFalseAlarm

USE LifecycleAssumption, AnswerAssumption

(* Before the process starts.                                              *)
LEMMA InitInv == Init => Inv
<1> SUFFICES ASSUME Init PROVE Inv
  BY Zenon
<1>1. TypeOK
  <2>1. h \in [Handler -> [pc: Steps, op: Op \cup {None}, db: Name \cup {None},
                          rec: Keys \cup {None, Legacy}, out: Answers \cup {None}]]
    BY Zenon DEF Init, Idle, Steps
  <2>2. recs \in [Name -> Keys \cup {None, Legacy}]
    BY Zenon DEF Init
  <2>3. boots \in 0..MaxBoots
    BY DEF Init
  <2> QED
    BY <2>1, <2>2, <2>3, Zenon DEF Init, TypeOK
<1>2. KeyHeld /\ Rested /\ Pending
  BY Zenon DEF Init, KeyHeld, Rested, Pending, Up, Idle, Op, Answers
<1>3. Readable /\ AnsweredKept /\ NoFalseAlarm
  BY Zenon DEF Init, Readable, AnsweredKept, NoFalseAlarm, Idle, Answers
<1> QED
  BY Zenon, <1>1, <1>2, <1>3 DEF Inv

-----------------------------------------------------------------------------
(* A step of a handler that leaves the disk, main and the histories alone. *)
LEMMA KeepInv ==
    ASSUME Inv, Keep, Up, NEW c \in Handler, NEW r,
           h' = [h EXCEPT ![c] = r], h[c].pc # "idle" \/ conns,
           r \in [pc: Steps \ {"idle"}, op: Op, db: Name,
                  rec: Keys \cup {None, Legacy}, out: Answers \cup {None}],
           r.pc # "reply" => r.out = None,
           r.pc = "auth" => undrained \/ r.rec = meta,
           (r.pc = "access" /\ r.op = "create") \/ r.out = "created" =>
               r.rec # None /\ (undrained \/ r.rec = meta),
           r.out = "corrupt_data" => undrained
    PROVE  Inv'
<1> USE DEF Inv
<1>1. TypeOK'
  BY Zenon DEF TypeOK, Keep, disk, proc
<1>2. KeyHeld'
  BY Zenon DEF KeyHeld, Keep, disk, proc, Up
<1>3. Rested'
  BY Zenon DEF Rested, Keep, disk, proc, Up, TypeOK
<1>4. Pending'
  BY Zenon DEF Pending, Keep, disk, proc, TypeOK
<1>5. Readable' /\ AnsweredKept' /\ NoFalseAlarm'
  BY Zenon DEF Readable, AnsweredKept, NoFalseAlarm, Keep, disk, proc, TypeOK
<1> QED
  BY Zenon, <1>1, <1>2, <1>3, <1>4, <1>5

(* A handler runs only in a process, and before store.close unless main    *)
(* did not wait for it.                                                    *)
LEMMA ActiveUp ==
    ASSUME Inv, NEW c \in Handler, h[c].pc # "idle"
    PROVE  /\ Up /\ meta \in Derived /\ h[c].db \in Name /\ h[c].op \in Op
           /\ wrapKey \in Keys
           /\ undrained \/ wrapKey = meta
BY Zenon DEF Inv, TypeOK, KeyHeld, Rested, Pending, Up

(* Once a batch has been applied its handler replies.                      *)
LEMMA AccessInv ==
    ASSUME Inv, NEW c \in Handler, Access(c)
    PROVE  Inv'
<1> USE DEF Inv
<1>0. /\ h[c].pc = "access" /\ h[c].out = None
      /\ meta' = meta /\ undrained' = undrained /\ UNCHANGED proc
      /\ Up /\ meta \in Derived /\ h[c].db \in Name
  BY Zenon, ActiveUp DEF Access, Pending
<1>1. PICK out \in Answers \ {"corrupt_data"} : Reply(c, out) /\ (out = "created" => h[c].op = "create")
  BY DEF Access, Answers
<1>2. TypeOK'
  <2>1. recs' \in [Name -> Keys \cup {None, Legacy}] /\ acked' \subseteq Name
    BY Zenon, <1>0 DEF Access, TypeOK
  <2>2. h' \in [Handler -> [pc: Steps, op: Op \cup {None}, db: Name \cup {None},
                           rec: Keys \cup {None, Legacy}, out: Answers \cup {None}]]
    <3>1. h' = [h EXCEPT ![c] = [h[c] EXCEPT !.pc = "reply", !.out = out]]
      BY Zenon, <1>1 DEF Reply, TypeOK
    <3>2. [h[c] EXCEPT !.pc = "reply", !.out = out]
             \in [pc: Steps, op: Op \cup {None}, db: Name \cup {None},
                  rec: Keys \cup {None, Legacy}, out: Answers \cup {None}]
      <4>1. h[c] \in [pc: Steps, op: Op \cup {None}, db: Name \cup {None},
                     rec: Keys \cup {None, Legacy}, out: Answers \cup {None}]
        BY Zenon DEF TypeOK
      <4>2. "reply" \in Steps /\ out \in Answers \cup {None}
        BY Zenon DEF Steps
      <4> QED
        BY Zenon, <4>1, <4>2
    <3> QED
      BY Zenon, <3>1, <3>2 DEF TypeOK
  <2>3. /\ meta' \in Derived \cup {None} /\ undrained' \in BOOLEAN
        /\ UNCHANGED <<phase, boots, master, wrapKey, stopping, conns>>
    BY Zenon, <1>0 DEF TypeOK, proc
  <2> QED
    BY <2>1, <2>2, <2>3, Zenon DEF TypeOK
<1>3. KeyHeld'
  BY Zenon, <1>0 DEF KeyHeld, proc, Up
<1>4. Rested'
  BY ZenonT(30), <1>0, <1>1 DEF Rested, Reply, proc, Up, TypeOK
<1>5. Pending'
  BY <1>0, <1>1 DEF Pending, Reply, TypeOK
<1>6. NoFalseAlarm'
  BY ZenonT(30), <1>0, <1>1 DEF NoFalseAlarm, Reply, TypeOK
<1>7. Readable' /\ AnsweredKept'
  <2>1. CASE h[c].op = "read"
    BY <1>0, <2>1 DEF Access, Readable, AnsweredKept
  <2>2. CASE h[c].op = "create"
    <3>1. /\ recs' = [recs EXCEPT ![h[c].db] = h[c].rec] /\ acked' = acked
          /\ h[c].rec # None /\ (undrained \/ h[c].rec = meta)
      BY Zenon, <1>0, <2>2 DEF Access, Pending
    <3> QED
      BY Zenon, <1>0, <3>1 DEF Readable, AnsweredKept, TypeOK, Opens
  <2>3. CASE h[c].op = "delete"
    <3>1. recs' = [recs EXCEPT ![h[c].db] = None] /\ acked' = acked \ {h[c].db}
      BY Zenon, <2>3 DEF Access
    <3> QED
      BY Zenon, <1>0, <3>1 DEF Readable, AnsweredKept, TypeOK
  <2> QED
    BY Zenon, <2>1, <2>2, <2>3 DEF Access
<1> QED
  BY Zenon, <1>2, <1>3, <1>4, <1>5, <1>6, <1>7

(* An answer that reaches its client is for a record that is in place.     *)
LEMMA AnswerInv ==
    ASSUME Inv, NEW c \in Handler, Answer(c)
    PROVE  Inv'
<1> USE DEF Inv
<1>0. /\ h[c].pc = "reply" /\ h' = [h EXCEPT ![c] = Idle]
      /\ UNCHANGED disk /\ UNCHANGED proc /\ undrained' = undrained
      /\ Up /\ meta \in Derived /\ h[c].db \in Name
  BY Zenon, ActiveUp DEF Answer
<1>1. /\ acked' \subseteq acked \cup {h[c].db}
      /\ h[c].db \in acked' \ acked => h[c].out = "created" /\ recs[h[c].db] = h[c].rec
  BY Zenon DEF Answer
<1>2. TypeOK'
  <2>1. h' \in [Handler -> [pc: Steps, op: Op \cup {None}, db: Name \cup {None},
                           rec: Keys \cup {None, Legacy}, out: Answers \cup {None}]]
    BY Zenon, <1>0 DEF TypeOK, Idle, Steps
  <2> QED
    BY Zenon, <1>0, <1>1, <2>1 DEF TypeOK, proc, disk
<1>3. KeyHeld'
  BY Zenon, <1>0 DEF KeyHeld, proc, disk, Up
<1>4. Rested'
  BY Zenon, <1>0 DEF Rested, Idle, proc, Up, TypeOK
<1>5. Pending' /\ NoFalseAlarm'
  BY Zenon, <1>0 DEF Pending, NoFalseAlarm, Idle, disk, TypeOK, Answers
<1>6. Readable'
  BY Zenon, <1>0 DEF Readable, disk
<1>7. AnsweredKept'
  BY Zenon, <1>0, <1>1 DEF AnsweredKept, Pending, Opens, disk
<1> QED
  BY Zenon, <1>2, <1>3, <1>4, <1>5, <1>6, <1>7

(* The steps of a request.                                                 *)
LEMMA HandleInv ==
    ASSUME Inv, NEW c \in Handler, Handle(c)
    PROVE  Inv'
<1> USE DEF Inv
<1> DEFINE R == [pc: Steps, op: Op \cup {None}, db: Name \cup {None},
                 rec: Keys \cup {None, Legacy}, out: Answers \cup {None}]
<1>0. h[c] \in R
  BY Zenon DEF TypeOK
<1>1. CASE Arrive(c)
  <2>1. PICK op \in Op, n \in Name :
          h' = [h EXCEPT ![c] = [Idle EXCEPT !.pc = "arrived", !.op = op, !.db = n]]
    BY Zenon, <1>1 DEF Arrive
  <2> QED
    BY Zenon, <1>1, <2>1, KeepInv DEF Arrive, Idle, Steps, Answers
<1>2. CASE rejectStopping(c)
  <2>1. \/ h' = [h EXCEPT ![c] = [h[c] EXCEPT !.pc = "reply", !.out = "service_unavailable"]]
        \/ h' = [h EXCEPT ![c] = [h[c] EXCEPT !.pc = "lock"]]
    BY Zenon, <1>2 DEF rejectStopping, Reply, To, TypeOK
  <2> QED
    BY Zenon, <1>0, <1>2, <2>1, ActiveUp, KeepInv DEF rejectStopping, Steps, Answers,
       Pending
<1>3. CASE dbLock(c)
  <2>1. h' = [h EXCEPT ![c] = [h[c] EXCEPT !.pc = "lookup"]]
    BY Zenon, <1>3 DEF dbLock, To, TypeOK
  <2>2. /\ h[c].db \in Name /\ h[c].op \in Op /\ h[c].out = None /\ Up /\ Keep
        /\ h[c].pc # "idle"
    BY Zenon, <1>3, ActiveUp DEF dbLock, Pending
  <2> QED
    BY Zenon, <1>0, <2>1, <2>2, KeepInv DEF Steps, Answers
<1>4. CASE recover(c)
  <2>1. h' = [h EXCEPT ![c] = [h[c] EXCEPT !.pc = "reply", !.out = "service_unavailable"]]
    BY Zenon, <1>4 DEF recover, Reply, TypeOK
  <2> QED
    BY Zenon, <1>0, <1>4, <2>1, ActiveUp, KeepInv DEF recover, Steps, Answers
<1>5. CASE lookup(c)
  <2>0. /\ h[c].db \in Name /\ h[c].op \in Op /\ h[c].out = None /\ Up /\ Keep
        /\ h[c].pc # "idle" /\ recs[h[c].db] \in Keys \cup {None, Legacy}
    BY Zenon, <1>5, ActiveUp DEF lookup, Pending, TypeOK
  <2>1. CASE recs[h[c].db] # None
    <3>1. h' = [h EXCEPT ![c] = [h[c] EXCEPT !.pc = "auth", !.rec = recs[h[c].db]]]
      BY Zenon, <1>5, <2>1 DEF lookup, TypeOK, To, Reply
    <3>2. undrained \/ recs[h[c].db] = meta
      BY Zenon, <1>5, <2>0, <2>1, ActiveUp DEF Readable
    <3> QED
      BY ZenonT(30), <1>0, <2>0, <3>1, <3>2, KeepInv DEF Steps, Answers
  <2>2. CASE recs[h[c].db] = None
    <3>1. \/ h' = [h EXCEPT ![c] = [h[c] EXCEPT !.pc = "wrap"]]
          \/ h' = [h EXCEPT ![c] = [h[c] EXCEPT !.pc = "reply", !.out = "database_not_found"]]
      BY Zenon, <1>5, <2>2 DEF lookup, TypeOK, To, Reply
    <3> QED
      BY ZenonT(30), <1>0, <2>0, <3>1, KeepInv DEF Steps, Answers
  <2> QED
    BY Zenon, <2>1, <2>2
<1>6. CASE authDBRecord(c)
  <2>0. /\ h[c].db \in Name /\ h[c].op \in Op /\ h[c].out = None /\ Up /\ Keep
        /\ h[c].pc # "idle"
    BY Zenon, <1>6, ActiveUp DEF authDBRecord, Pending
  <2>1. unwrapDBKey(wrapKey, h[c].rec) \/ undrained
    BY Zenon, <1>6, ActiveUp DEF authDBRecord, Pending, unwrapDBKey, Opens
  <2>2. \/ /\ undrained
           /\ h' = [h EXCEPT ![c] = [h[c] EXCEPT !.pc = "reply", !.out = "corrupt_data"]]
        \/ h' = [h EXCEPT ![c] = [h[c] EXCEPT !.pc = "reply", !.out = "database_exists"]]
        \/ /\ h[c].op # "create"
           /\ h' = [h EXCEPT ![c] = [h[c] EXCEPT !.pc = "access"]]
    BY Zenon, <1>6, <2>1 DEF authDBRecord, TypeOK, To, Reply
  <2>3. ASSUME NEW out \in {"corrupt_data", "database_exists"}, out = "corrupt_data" => undrained,
               h' = [h EXCEPT ![c] = [h[c] EXCEPT !.pc = "reply", !.out = out]]
        PROVE  Inv'
    BY Zenon, <1>0, <2>0, <2>3, KeepInv DEF Steps, Answers
  <2>4. CASE h[c].op # "create" /\ h' = [h EXCEPT ![c] = [h[c] EXCEPT !.pc = "access"]]
    BY Zenon, <1>0, <2>0, <2>4, KeepInv DEF Steps, Answers
  <2> QED
    BY <2>2, <2>3, <2>4, Zenon
<1>7. CASE makeDBRecord(c)
  <2>0. /\ h[c].db \in Name /\ h[c].op \in Op /\ h[c].out = None /\ Up /\ Keep
        /\ h[c].pc # "idle" /\ wrapKey \in Keys /\ (undrained \/ wrapKey = meta)
    BY Zenon, <1>7, ActiveUp DEF makeDBRecord, Pending
  <2>1. h' = [h EXCEPT ![c] = [h[c] EXCEPT !.pc = "access", !.rec = wrapKey]]
    BY Zenon, <1>7 DEF makeDBRecord, wrapDBKey, TypeOK
  <2>2. wrapKey # None
    BY Zenon, <2>0 DEF Keys
  <2> QED
    BY Zenon, <1>0, <2>0, <2>1, <2>2, KeepInv DEF Steps, Answers
<1> QED
  BY Zenon, <1>1, <1>2, <1>3, <1>4, <1>5, <1>6, <1>7, AccessInv, AnswerInv DEF Handle

-----------------------------------------------------------------------------
(* A step of main that leaves the disk and the handlers alone.             *)
LEMMA StillData ==
    ASSUME Inv, UNCHANGED <<disk, h, acked>>, undrained' \in BOOLEAN, undrained => undrained'
    PROVE  Pending' /\ Readable' /\ AnsweredKept' /\ NoFalseAlarm'
BY Zenon DEF Inv, Pending, Readable, AnsweredKept, NoFalseAlarm, disk

(* Opening an empty store gives it metadata; nothing refers to the disk.   *)
LEMMA InitStoreMetaInv ==
    ASSUME Inv, initStoreMeta
    PROVE  Inv'
<1> USE DEF Inv
<1>1. CASE ~storeEmpty
  <2>1. Refuse /\ UNCHANGED <<disk, h, acked, undrained>>
    BY Zenon, <1>1 DEF initStoreMeta, Still, disk
  <2>2. TypeOK'
    BY <2>1, Zenon DEF TypeOK, Refuse, disk
  <2>3. KeyHeld'
    BY Zenon, <2>1 DEF KeyHeld, Refuse, Up, disk
  <2>4. Rested'
    BY Zenon, <2>1 DEF initStoreMeta, Rested, Refuse, Up
  <2> QED
    BY Zenon, <2>1, <2>2, <2>3, <2>4, StillData DEF TypeOK
<1>2. CASE storeEmpty
  <2>1. PICK s \in Salt : meta' = deriveWrapKey(master, s) /\ Serve(meta')
    BY Zenon, <1>2 DEF initStoreMeta
  <2>2. /\ recs' = recs /\ h' = h /\ acked' = acked /\ undrained' = undrained
        /\ \A n \in Name : recs[n] = None
        /\ \A c \in Handler : h[c] = Idle
        /\ acked = {}
    BY Zenon, <1>2 DEF initStoreMeta, Still, storeEmpty, Rested, Up, KeyHeld
  <2>3. meta' \in Derived /\ meta'.master = master /\ master' = master
    BY Zenon, <2>1 DEF deriveWrapKey, Derived, Serve, TypeOK
  <2>4. TypeOK'
    <3>1. wrapKey' \in Keys \cup {None}
      BY Zenon, <2>1, <2>3 DEF Serve, Keys
    <3> QED
      BY <2>1, <2>2, <2>3, <3>1, Zenon DEF TypeOK, Serve
  <2>5. KeyHeld'
    BY Zenon, <2>1, <2>3 DEF KeyHeld, Serve
  <2>6. Rested'
    BY Zenon, <2>1, <2>2 DEF Rested, Serve, Up
  <2>7. Pending' /\ NoFalseAlarm'
    BY <2>2 DEF Pending, NoFalseAlarm, Idle, Answers
  <2>8. Readable' /\ AnsweredKept'
    BY Zenon, <2>2 DEF Readable, AnsweredKept
  <2> QED
    BY Zenon, <2>4, <2>5, <2>6, <2>7, <2>8
<1> QED
  BY Zenon, <1>1, <1>2

(* initStoreCrypto, each way it can end.                                   *)
LEMMA InitStoreCryptoInv ==
    ASSUME Inv, initStoreCrypto
    PROVE  Inv'
<1> USE DEF Inv
<1>1. UNCHANGED <<disk, h, acked, undrained>>
  BY Zenon DEF initStoreCrypto, Still
<1>2. Pending' /\ Readable' /\ AnsweredKept' /\ NoFalseAlarm'
  BY Zenon, <1>1, StillData DEF TypeOK
<1>3. CASE openStoreMeta(master)
  <2>1. Serve(meta) /\ meta.master = master /\ meta \in Derived
    BY <1>3 DEF initStoreCrypto, openStoreMeta, Opens, Refuse, deriveWrapKey, TypeOK,
       Derived
  <2>2. TypeOK'
    <3>1. wrapKey' \in Keys \cup {None}
      BY Zenon, <2>1 DEF Serve, Keys
    <3> QED
      BY <1>1, <2>1, <3>1, Zenon DEF TypeOK, Serve, disk
  <2>3. KeyHeld'
    BY Zenon, <1>1, <2>1 DEF KeyHeld, Serve, disk
  <2>4. Rested'
    BY Zenon, <1>1, <2>1 DEF Rested, Serve, Up
  <2> QED
    BY Zenon, <1>2, <2>2, <2>3, <2>4
<1>4. CASE ~openStoreMeta(master)
  <2>1. Refuse
    BY Zenon, <1>4 DEF initStoreCrypto
  <2>2. TypeOK'
    BY <1>1, <2>1, Zenon DEF TypeOK, Refuse, disk
  <2>3. KeyHeld'
    BY Zenon, <1>1, <2>1 DEF KeyHeld, Refuse, Up, disk
  <2>4. Rested'
    BY Zenon, <1>1, <2>1 DEF initStoreCrypto, Rested, Refuse, Up
  <2> QED
    BY Zenon, <1>2, <2>2, <2>3, <2>4
<1> QED
  BY Zenon, <1>3, <1>4

(* The steps of main between opening the store and the end of the process. *)
LEMMA MainInv ==
    ASSUME Inv, openStore \/ Signal \/ ServeError \/ stop \/ Drained \/ GiveUp \/ Clear \/ ClosePebble
    PROVE  Inv'
<1> USE DEF Inv
<1>1. UNCHANGED <<disk, h, acked>> /\ undrained' \in BOOLEAN /\ (undrained => undrained')
  BY Zenon DEF openStore, Signal, ServeError, stop, Drained, GiveUp, Clear, ClosePebble,
     Still, TypeOK
<1>2. Pending' /\ Readable' /\ AnsweredKept' /\ NoFalseAlarm'
  BY Zenon, <1>1, StillData
<1>3. TypeOK'
  <2>1. boots' \in 0..MaxBoots /\ master' \in Master
    BY DEF openStore, Signal, ServeError, stop, Drained, GiveUp, Clear, ClosePebble,
       TypeOK
  <2>2. wrapKey' \in Keys \cup {None}
    BY Zenon DEF openStore, Signal, ServeError, stop, Drained, GiveUp, Clear,
       ClosePebble, TypeOK, Keys
  <2>3. stopping' \in BOOLEAN /\ conns' \in BOOLEAN
    BY Zenon DEF openStore, Signal, ServeError, stop, Drained, GiveUp, Clear,
       ClosePebble, TypeOK
  <2>4. phase' \in {"opening", "signalled", "draining", "closing", "clearing", "cleared", "closed"}
    BY Zenon DEF openStore, Signal, ServeError, stop, Drained, GiveUp, Clear, ClosePebble
  <2> QED
    BY Zenon, <1>1, <2>1, <2>2, <2>3, <2>4 DEF TypeOK, disk
<1>4. KeyHeld'
  <2>1. CASE openStore
    BY Zenon, <1>1, <2>1 DEF openStore, KeyHeld, Up, disk
  <2>2. CASE Clear
    BY Zenon, <1>1, <2>2 DEF Clear, KeyHeld, Up, disk
  <2>3. CASE Signal \/ ServeError \/ stop \/ Drained \/ GiveUp \/ ClosePebble
    BY Zenon, <1>1, <2>3 DEF Signal, ServeError, stop, Drained, GiveUp, ClosePebble,
       KeyHeld, Up, disk
  <2> QED
    BY Zenon, <2>1, <2>2, <2>3
<1>5. Rested'
  <2>1. CASE openStore
    BY Zenon, <1>1, <2>1 DEF openStore, Rested, Up
  <2>2. CASE Drained
    BY Zenon, <1>1, <2>2 DEF Drained, Rested, Active, Up
  <2>3. CASE ServeError \/ GiveUp
    BY Zenon, <1>1, <2>3 DEF ServeError, GiveUp, Rested, Up
  <2>4. CASE Signal \/ stop \/ Clear \/ ClosePebble
    BY <1>1, <2>4 DEF Signal, stop, Clear, ClosePebble, Rested, Up, Still
  <2> QED
    BY Zenon, <2>1, <2>2, <2>3, <2>4
<1> QED
  BY Zenon, <1>2, <1>3, <1>4, <1>5

(* The end of a process leaves the disk as it is.                          *)
LEMMA EndInv ==
    ASSUME Inv, End
    PROVE  Inv'
<1> USE DEF Inv
<1>1. \A c \in Handler : h'[c] = Idle
  BY Zenon DEF End
<1>2. TypeOK'
  <2>1. h' \in [Handler -> [pc: Steps, op: Op \cup {None}, db: Name \cup {None},
                           rec: Keys \cup {None, Legacy}, out: Answers \cup {None}]]
    BY Zenon DEF End, Idle, Steps
  <2> QED
    BY <2>1, Zenon DEF TypeOK, End, disk
<1>3. KeyHeld' /\ Rested'
  BY Zenon, <1>1 DEF KeyHeld, Rested, End, Up, Idle, disk
<1>4. Pending' /\ NoFalseAlarm'
  BY <1>1 DEF Pending, NoFalseAlarm, Idle, Answers
<1>5. Readable' /\ AnsweredKept'
  BY Zenon DEF Readable, AnsweredKept, End, disk
<1> QED
  BY Zenon, <1>2, <1>3, <1>4, <1>5

(* Every step keeps the invariant.                                         *)
LEMMA NextInv == Inv /\ [Next]_vars => Inv'
<1> SUFFICES ASSUME Inv, [Next]_vars PROVE Inv'
  BY Zenon
<1>1. CASE UNCHANGED vars
  <2>1. UNCHANGED <<meta, recs, phase, boots, master, wrapKey, stopping, conns, h, acked, undrained>>
    BY Zenon, <1>1 DEF vars, disk, proc
  <2> QED
    BY <2>1, Zenon DEF Inv, TypeOK, KeyHeld, Rested, Pending, Readable, AnsweredKept,
       NoFalseAlarm, Up
<1>2. CASE \E c \in Handler : Handle(c)
  BY Zenon, <1>2, HandleInv
<1>3. CASE Run \/ Crash
  BY Zenon, <1>3, InitStoreMetaInv, InitStoreCryptoInv, MainInv, EndInv DEF Run,
     Shutdown, Exit, Crash
<1> QED
  BY Zenon, <1>1, <1>2, <1>3 DEF Next, Rest

-----------------------------------------------------------------------------
(* So it always holds.                                                     *)
LEMMA SpecInv == Spec => []Inv
BY InitInv, NextInv, PTL DEF Spec

(* Every variable keeps its type, whatever handlers and main do; in        *)
(* particular no record is ever wrapped with the bare master key.          *)
THEOREM TypeCorrect == Spec => []TypeOK
<1>1. Inv => TypeOK
  BY Zenon DEF Inv
<1> QED
  BY SpecInv, <1>1, PTL

(* Every database record can be opened with the key the store's metadata   *)
(* vouches for, for any number of handlers, crashes and restarts, as long  *)
(* as every store.close has waited for a drain.                            *)
THEOREM RecordsReadable == Spec => []Readable
<1>1. Inv => Readable
  BY Zenon DEF Inv
<1> QED
  BY SpecInv, <1>1, PTL

(* A database whose creation was answered 201 survives every crash, and    *)
(* stays readable as long as every store.close has waited for a drain.     *)
THEOREM CreationDurable == Spec => []AnsweredKept
<1>1. Inv => AnsweredKept
  BY Zenon DEF Inv
<1> QED
  BY SpecInv, <1>1, PTL

(* Without an undrained close no request is answered corrupt_data.         *)
THEOREM NoCorruptAnswer == Spec => []NoFalseAlarm
<1>1. Inv => NoFalseAlarm
  BY Zenon DEF Inv
<1> QED
  BY SpecInv, <1>1, PTL

(* A process started with another master key, or on a store without        *)
(* metadata that is not empty, writes nothing.                             *)
THEOREM ForeignUntouched == Spec => ForeignKept
<1> DEFINE Step == (IF meta = None THEN ~storeEmpty ELSE meta.master # master) => UNCHANGED disk
<1>1. Inv /\ [Next]_vars => [Step]_vars
  <2> SUFFICES ASSUME Inv, Next, IF meta = None THEN ~storeEmpty ELSE meta.master # master
               PROVE  UNCHANGED disk
    BY Zenon DEF Inv
  <2>1. ~Up /\ \A c \in Handler : h[c].pc = "idle" /\ ~conns
    BY Zenon DEF Inv, KeyHeld, Rested, TypeOK
  <2>2. CASE Run \/ Crash \/ Rest
    BY Zenon, <2>2 DEF Run, Shutdown, openStore, initStoreMeta, initStoreCrypto, Signal,
       ServeError,
                stop, Drained, GiveUp, Clear, ClosePebble, Exit, Crash, Rest, End, disk, vars
  <2>3. CASE \E c \in Handler : Handle(c)
    BY Zenon, <2>1, <2>3 DEF Handle, Arrive, rejectStopping, dbLock, recover, lookup,
       authDBRecord,
                      makeDBRecord, Access, Answer, Keep
  <2> QED
    BY Zenon, <2>2, <2>3 DEF Next
<1> QED
  BY SpecInv, <1>1, PTL DEF Spec, ForeignKept

=============================================================================
