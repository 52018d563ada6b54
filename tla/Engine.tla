------------------------------- MODULE Engine -------------------------------
(***************************************************************************)
(* The durability core of the TraceDB engine: the commit path of           *)
(* TraceDb (crates/tracedb-query), the write-ahead log it appends to       *)
(* (crates/tracedb-log), the manifest with its rotated backup, checkpoints *)
(* and recovery on open.                                                   *)
(*                                                                         *)
(* A commit is abstracted to its epoch and the number of the write attempt *)
(* that made it; a record store is the set of commits applied to it.  What *)
(* a commit does to records is the subject of RecordStore.tla.             *)
(*                                                                         *)
(* One handle is open at a time: EngineLock makes a second open of the     *)
(* same directory fail, in the same process too.  Every operation is       *)
(* stepped at the points where a failure or a crash leaves something       *)
(* different on disk.                                                      *)
(***************************************************************************)
EXTENDS Integers, Sequences, FiniteSets

CONSTANTS
    MaxEpoch,       \* bound on the epochs a run reaches
    MaxOps,         \* bound on the number of write attempts
    MaxRestarts,    \* bound on the number of crashes
    MaxCheckpoints, \* bound on the number of checkpoint attempts
    Faults          \* the faults the environment may inject

(***************************************************************************)
(* "sync_fail"           sync_data of a WAL append returns an error        *)
(* "short_write"         write_all of a WAL append stops half way and the  *)
(*                       process lives on                                  *)
(* "io_fail"             a step of a manifest write, or of the end of a    *)
(*                       checkpoint, returns an error                      *)
(* "power_loss"          a crash may lose what was not synced              *)
(* "manifest_corruption" manifest.tdb stops being readable JSON            *)
(***************************************************************************)
FaultKinds == {"sync_fail", "short_write", "io_fail", "power_loss",
               "manifest_corruption"}

ASSUME BoundsAssumption ==
    /\ MaxEpoch \in Nat
    /\ MaxOps \in Nat
    /\ MaxRestarts \in Nat
    /\ MaxCheckpoints \in Nat

ASSUME FaultsAssumption == Faults \subseteq FaultKinds

Epoch == 0..MaxEpoch
Op == 0..MaxOps
Commit == [epoch : Epoch, op : Op]

\* A frame of 000001.twal.  prev stands for the checksum of the frame before
\* it (0: none); a frame that is not whole lost its end.
Frame == [epoch : Epoch, op : Op, prev : Op, whole : BOOLEAN]

\* manifest.tdb or manifest.tdb.bak.  durable_epoch is always written equal to
\* latest_epoch, so one field stands for both.
Manifest == [state : {"none", "ok", "garbled"}, latest : Epoch, chk : Epoch,
             gen : Nat]

\* The next generation of manifest m: at epoch e, or with a checkpoint at e.
AtEpoch(m, e) ==
    [state |-> m.state, latest |-> e, chk |-> m.chk, gen |-> m.gen + 1]

\* Broken: a checkpoint does not make a new generation.
AtCheckpointSameGen(m, e) ==
    [state |-> m.state, latest |-> m.latest, chk |-> e, gen |-> m.gen]

AtCheckpoint(m, e) ==
    [state |-> m.state, latest |-> m.latest, chk |-> e, gen |-> m.gen + 1]

NoManifest == [state |-> "none", latest |-> 0, chk |-> 0, gen |-> 0]
EmptyManifest == [state |-> "ok", latest |-> 0, chk |-> 0, gen |-> 1]

VARIABLES
    wal,      \* disk: the frames of the WAL file
    synced,   \* disk: how many of its frames are on stable storage
    man,      \* disk: manifest.tdb
    bak,      \* disk: manifest.tdb.bak
    chk,      \* disk: the store each checkpoint file holds, by epoch
    pc,       \* where the process is
    mem,      \* the handle's manifest
    store,    \* the handle's record store
    tail,     \* the handle's cache of the end of the WAL
    pend,     \* the manifest being written
    why,      \* the operation writing it: "open", "commit", "checkpoint"
    acked,    \* commits whose write returned Ok
    ops,      \* write attempts so far
    restarts, \* crashes so far
    ckpts     \* checkpoint attempts so far

disk == <<wal, synced, man, bak, chk>>
handle == <<mem, store, tail, pend, why>>
counters == <<acked, ops, restarts, ckpts>>
vars == <<wal, synced, man, bak, chk, pc, mem, store, tail, pend, why,
          acked, ops, restarts, ckpts>>

CommitOf(f) == [epoch |-> f.epoch, op |-> f.op]

\* The file is readable up to frame n: that prefix is whole and chained, and
\* the file ends there or goes on with a frame that is cut off.
ScansTo(w, n) ==
    /\ n \in 0..Len(w)
    /\ \A i \in 1..n : /\ w[i].whole
                       /\ w[i].prev = IF i = 1 THEN 0 ELSE w[i-1].op
    /\ n < Len(w) => ~w[n+1].whole

\* scan_file reports corruption: a broken chain, or bytes that follow a frame
\* cut off in the middle of the file and are read as the rest of it.  In that
\* second case the lengths decide whether the scan sees a bad checksum or a
\* short tail, so ScansTo and ScanFails can both hold.
ScanFails(w) ==
    \/ \E i \in 1..Len(w) : /\ w[i].whole
                            /\ \A j \in 1..(i-1) : w[j].whole
                            /\ w[i].prev # IF i = 1 THEN 0 ELSE w[i-1].op
    \/ \E i \in 1..Len(w) : ~w[i].whole /\ i < Len(w)

TailFromScan(w, n) ==
    [len |-> Len(w),
     last |-> IF n = 0 THEN 0 ELSE w[n].epoch,
     prev |-> IF n = 0 THEN 0 ELSE w[n].op]

\* read_manifest: the primary, or the backup when the primary is not JSON.
ReadManifest == IF man.state = "garbled" THEN bak ELSE man

\* read_checkpoint_file: what the file named by manifest m holds (epoch 0:
\* there is no checkpoint).  Checkpoint files are taken to stay readable.
LoadCheckpoint(m) == chk[m.chk]

\* write_checkpoint_file: temporary file, sync, rename, directory sync.
CheckpointWritten(e, s) == [chk EXCEPT ![e] = s]

\* Broken: replays only what the manifest does not know of.
ReplayedBeyondManifest(m, w, n) ==
    LoadCheckpoint(m) \cup {CommitOf(w[i]) : i \in {j \in 1..n : w[j].epoch > m.latest}}

\* What open rebuilds from manifest m and the first n frames of w: the
\* checkpoint and the commits above it.
Replayed(m, w, n) ==
    LoadCheckpoint(m) \cup {CommitOf(w[i]) : i \in {j \in 1..n : w[j].epoch > m.chk}}

Init ==
    /\ wal = <<>>
    /\ synced = 0
    /\ man = NoManifest
    /\ bak = NoManifest
    /\ chk = [e \in Epoch |-> {}]
    /\ pc = "closed"
    /\ mem = NoManifest
    /\ store = {}
    /\ tail = [len |-> 0, last |-> 0, prev |-> 0]
    /\ pend = NoManifest
    /\ why = "open"
    /\ acked = {}
    /\ ops = 0
    /\ restarts = 0
    /\ ckpts = 0

-----------------------------------------------------------------------------
(* Opening the directory *)

\* Neither manifest exists: open writes an empty one.
CreateManifest ==
    /\ pc = "closed"
    /\ man.state = "none"
    /\ bak.state = "none"
    /\ man' = EmptyManifest
    /\ UNCHANGED <<wal, synced, bak, chk, pc, handle, counters>>

\* Wal::open cuts a torn tail off; the checkpoint named by the manifest is
\* loaded and the commits above it are replayed; a manifest behind the WAL
\* is rewritten before open returns.
Open ==
    /\ pc = "closed"
    /\ man.state # "none"
    /\ ReadManifest.state = "ok"
    /\ \E n \in 0..Len(wal) :
        LET m == ReadManifest
            last == IF n = 0 THEN 0 ELSE wal[n].epoch
            behind == last > m.chk /\ last > m.latest
        IN  /\ ScansTo(wal, n)
            /\ wal' = SubSeq(wal, 1, n)
            /\ synced' = IF n < Len(wal) THEN n ELSE synced
            /\ tail' = TailFromScan(SubSeq(wal, 1, n), n)
            /\ store' = Replayed(m, wal, n)
            /\ mem' = IF behind THEN AtEpoch(m, last) ELSE m
            /\ pend' = mem'
            /\ pc' = IF behind THEN "backup" ELSE "idle"
    /\ why' = "open"
    /\ UNCHANGED <<man, bak, chk, counters>>

\* Recovery stops with an error and leaves the directory as it is.
OpenFails ==
    /\ pc = "closed"
    /\ man.state # "none"
    /\ ReadManifest.state # "ok" \/ ScanFails(wal)
    /\ pc' = "failed"
    /\ UNCHANGED <<disk, handle, counters>>

-----------------------------------------------------------------------------
(* Writing a manifest: open, commit and checkpoint share these steps *)

\* copy_manifest_backup keeps the old backup when the primary is unreadable.
CopyBackup ==
    /\ pc = "backup"
    /\ bak' = IF man.state = "ok" THEN man ELSE bak
    /\ pc' = "publish"
    /\ UNCHANGED <<wal, synced, man, chk, handle, counters>>

CommitAt(e) == {c \in store : c.epoch = e}

\* The rename puts the new manifest in place.  A commit returns Ok here.
PublishManifest ==
    /\ pc = "publish"
    /\ man' = pend
    /\ pc' = IF why = "checkpoint" THEN "truncate" ELSE "idle"
    /\ acked' = IF why = "commit" THEN acked \cup CommitAt(pend.latest)
                                  ELSE acked
    /\ UNCHANGED <<wal, synced, bak, chk, handle, ops, restarts, ckpts>>

\* A step of the write fails, before the rename or after it (the directory
\* sync).  A commit leaves the handle ahead of the manifest; an open drops
\* the handle.
ManifestWriteFails ==
    /\ "io_fail" \in Faults
    /\ pc \in {"backup", "publish"}
    /\ man' \in IF pc = "publish" THEN {man, pend} ELSE {man}
    /\ pc' = IF why = "open" THEN "closed" ELSE "idle"
    /\ UNCHANGED <<wal, synced, bak, chk, handle, counters>>

-----------------------------------------------------------------------------
(* A write: apply_schema, insert, put, put_batch, patch, delete, ... *)

\* Broken: the cache is trusted without a look at the file.
TailTrusted(t) == t = tail

\* Wal::last_commit_epoch rescans when the file is not as long as the cache
\* says; the torn tail it may find stays in the file.
TailMayBe(t) ==
    IF tail.len = Len(wal) THEN t = tail
    ELSE \E n \in 0..Len(wal) : ScansTo(wal, n) /\ t = TailFromScan(wal, n)

\* Broken: only the manifest is compared.
StaleManifestOnly(t) ==
    \/ ReadManifest.latest > mem.latest
    \/ ReadManifest.chk > mem.chk
    \/ ReadManifest.gen > mem.gen

\* refresh_from_disk_if_stale: the WAL or the manifest is ahead of the handle.
Stale(t) ==
    \/ t.last > mem.latest
    \/ ReadManifest.latest > mem.latest
    \/ ReadManifest.chk > mem.chk
    \/ ReadManifest.gen > mem.gen

\* The handle is current: the write is planned at the next epoch.
BeginWrite ==
    /\ pc = "idle"
    /\ ops < MaxOps
    /\ mem.latest < MaxEpoch
    /\ ReadManifest.state = "ok"
    /\ TailMayBe(tail')
    /\ ~Stale(tail')
    /\ ops' = ops + 1
    /\ pc' = "append"
    /\ UNCHANGED <<disk, mem, store, pend, why, acked, restarts, ckpts>>

\* A stale handle reopens the directory, and that open fails on the
\* engine.lock this very handle holds: the write is refused.
WriteRefused ==
    /\ pc = "idle"
    /\ ReadManifest.state = "ok"
    /\ TailMayBe(tail')
    /\ Stale(tail')
    /\ UNCHANGED <<disk, pc, mem, store, pend, why, counters>>

\* Broken: the epoch is advanced twice.
NewFrameSkips(whole) ==
    [epoch |-> mem.latest + 2, op |-> ops, prev |-> tail.prev, whole |-> whole]

NewFrame(whole) ==
    [epoch |-> mem.latest + 1, op |-> ops, prev |-> tail.prev, whole |-> whole]

\* Broken: the frame is not synced before the write goes on.
AppendCommitUnsynced ==
    /\ pc = "append"
    /\ wal' = Append(wal, NewFrame(TRUE))
    /\ tail' = [len |-> tail.len + 1, last |-> mem.latest + 1, prev |-> ops]
    /\ store' = store \cup {CommitOf(NewFrame(TRUE))}
    /\ mem' = AtEpoch(mem, mem.latest + 1)
    /\ pend' = mem'
    /\ why' = "commit"
    /\ pc' = "backup"
    /\ UNCHANGED <<synced, man, bak, chk, counters>>

\* append_commit, then the in-memory part of the write: apply_delta and the
\* first half of bump_manifest.
AppendCommit ==
    /\ pc = "append"
    /\ wal' = Append(wal, NewFrame(TRUE))
    /\ synced' = Len(wal) + 1
    /\ tail' = [len |-> tail.len + 1, last |-> mem.latest + 1, prev |-> ops]
    /\ store' = store \cup {CommitOf(NewFrame(TRUE))}
    /\ mem' = AtEpoch(mem, mem.latest + 1)
    /\ pend' = mem'
    /\ why' = "commit"
    /\ pc' = "backup"
    /\ UNCHANGED <<man, bak, chk, counters>>

\* The frame is in the file but sync_data failed: the write returns an error
\* and the tail cache is not moved.
AppendSyncFails ==
    /\ "sync_fail" \in Faults
    /\ pc = "append"
    /\ wal' = Append(wal, NewFrame(TRUE))
    /\ pc' = "idle"
    /\ UNCHANGED <<synced, man, bak, chk, handle, counters>>

\* write_all failed after part of the frame.
AppendShortWrite ==
    /\ "short_write" \in Faults
    /\ pc = "append"
    /\ wal' = Append(wal, NewFrame(FALSE))
    /\ pc' = "idle"
    /\ UNCHANGED <<synced, man, bak, chk, handle, counters>>

-----------------------------------------------------------------------------
(* Checkpoint *)

\* Broken: the WAL is emptied before the manifest names the checkpoint.
BeginCheckpointTruncates ==
    /\ pc = "idle"
    /\ ckpts < MaxCheckpoints
    /\ ReadManifest.state = "ok"
    /\ ReadManifest.latest = mem.latest
    /\ ckpts' = ckpts + 1
    /\ chk' = CheckpointWritten(mem.latest, store)
    /\ wal' = <<>>
    /\ synced' = 0
    /\ pend' = AtCheckpoint(ReadManifest, mem.latest)
    /\ why' = "checkpoint"
    /\ pc' = "backup"
    /\ UNCHANGED <<man, bak, mem, store, tail, acked, ops, restarts>>

\* Broken: the checkpoint misses the commit of its own epoch.
BeginCheckpointShort ==
    /\ pc = "idle"
    /\ ckpts < MaxCheckpoints
    /\ ReadManifest.state = "ok"
    /\ ReadManifest.latest = mem.latest
    /\ ckpts' = ckpts + 1
    /\ chk' = CheckpointWritten(mem.latest, {c \in store : c.epoch < mem.latest})
    /\ pend' = AtCheckpoint(ReadManifest, mem.latest)
    /\ why' = "checkpoint"
    /\ pc' = "backup"
    /\ UNCHANGED <<wal, synced, man, bak, mem, store, tail, acked, ops, restarts>>

\* The checkpoint file is written from the handle's store, without a refresh;
\* then the manifest on disk must still be at the handle's epoch.
BeginCheckpoint ==
    /\ pc = "idle"
    /\ ckpts < MaxCheckpoints
    /\ ckpts' = ckpts + 1
    /\ chk' = CheckpointWritten(mem.latest, store)
    /\ \/ /\ ReadManifest.state = "ok"
          /\ ReadManifest.latest = mem.latest
          /\ pend' = AtCheckpoint(ReadManifest, mem.latest)
          /\ why' = "checkpoint"
          /\ pc' = "backup"
       \/ /\ ReadManifest.state # "ok" \/ ReadManifest.latest # mem.latest
          /\ UNCHANGED <<pend, why, pc>>
    /\ UNCHANGED <<wal, synced, man, bak, mem, store, tail, acked, ops, restarts>>

\* truncate_active_wal, a fresh Wal and the new manifest in the handle.
TruncateWal ==
    /\ pc = "truncate"
    /\ wal' = <<>>
    /\ synced' = 0
    /\ tail' = TailFromScan(<<>>, 0)
    /\ mem' = pend
    /\ pc' = "idle"
    /\ UNCHANGED <<man, bak, chk, store, pend, why, counters>>

\* The truncation fails, or the reopening of the WAL after it: the handle
\* keeps its old manifest and tail cache.
TruncateFails ==
    /\ "io_fail" \in Faults
    /\ pc = "truncate"
    /\ \/ UNCHANGED <<wal, synced>>
       \/ wal' = <<>> /\ synced' = 0
    /\ pc' = "idle"
    /\ UNCHANGED <<man, bak, chk, handle, counters>>

-----------------------------------------------------------------------------
(* Crashes and corruption *)

\* What an append may have left in the file when the process dies in it.
InFlight ==
    {wal} \cup IF pc = "append" THEN {Append(wal, NewFrame(b)) : b \in BOOLEAN}
                                ELSE {}

CrashTo(w, s) ==
    /\ pc \notin {"closed", "failed"}
    /\ restarts < MaxRestarts
    /\ restarts' = restarts + 1
    /\ wal' = w
    /\ synced' = s
    /\ pc' = "closed"
    /\ mem' = NoManifest
    /\ store' = {}
    /\ pend' = NoManifest
    /\ why' = "open"
    /\ tail' = TailFromScan(<<>>, 0)
    /\ UNCHANGED <<man, bak, chk, acked, ops, ckpts>>

\* The process dies (or closes); the operating system keeps the file.
Crash == \E w \in InFlight : CrashTo(w, synced)

\* The first k frames of w, the last of them without its end.
Torn(w, k) ==
    [i \in 1..k |-> IF i = k THEN [w[i] EXCEPT !.whole = FALSE] ELSE w[i]]

\* The machine dies: frames beyond the last sync may be gone, the last one
\* that is left may be cut off.
PowerLoss ==
    /\ "power_loss" \in Faults
    /\ \E w \in InFlight : \E k \in synced..Len(w) :
        \/ CrashTo(SubSeq(w, 1, k), k)
        \/ k > synced /\ CrashTo(Torn(w, k), k)

\* The corruption the rotated backup is there for.
CorruptManifest ==
    /\ "manifest_corruption" \in Faults
    /\ man.state = "ok"
    /\ bak.state = "ok"
    /\ man' = [man EXCEPT !.state = "garbled"]
    /\ UNCHANGED <<wal, synced, bak, chk, pc, handle, counters>>

-----------------------------------------------------------------------------
Next ==
    \/ CreateManifest
    \/ Open
    \/ OpenFails
    \/ CopyBackup
    \/ PublishManifest
    \/ ManifestWriteFails
    \/ BeginWrite
    \/ WriteRefused
    \/ AppendCommit
    \/ AppendSyncFails
    \/ AppendShortWrite
    \/ BeginCheckpoint
    \/ TruncateWal
    \/ TruncateFails
    \/ Crash
    \/ PowerLoss
    \/ CorruptManifest

Spec == Init /\ [][Next]_vars

\* The process runs the steps of an operation it has begun one after the
\* other, and a closed directory is opened again (the server opens it when it
\* starts).  Nothing obliges a client to write or to checkpoint.
Fairness ==
    /\ WF_vars(CreateManifest)
    /\ WF_vars(Open)
    /\ WF_vars(CopyBackup)
    /\ WF_vars(PublishManifest)
    /\ WF_vars(AppendCommit)
    /\ WF_vars(TruncateWal)

FairSpec == Spec /\ Fairness

-----------------------------------------------------------------------------
(* Properties *)

\* Every variable has its type.
TypeOK ==
    /\ wal \in Seq(Frame)
    /\ synced \in 0..Len(wal)
    /\ man \in Manifest
    /\ bak \in Manifest
    /\ chk \in [Epoch -> SUBSET Commit]
    /\ pc \in {"closed", "failed", "idle", "append", "backup", "publish",
              "truncate"}
    /\ mem \in Manifest
    /\ store \in SUBSET Commit
    /\ tail \in [len : Nat, last : Epoch, prev : Op]
    /\ pend \in Manifest
    /\ why \in {"open", "commit", "checkpoint"}
    /\ acked \in SUBSET Commit
    /\ ops \in Op
    /\ restarts \in 0..MaxRestarts
    /\ ckpts \in 0..MaxCheckpoints

\* What is on disk that recovery would bring back: the checkpoint the manifest
\* names and the whole frames above it.
Recoverable ==
    LoadCheckpoint(ReadManifest)
        \cup {CommitOf(wal[i]) : i \in {j \in 1..Len(wal) :
                    wal[j].whole /\ wal[j].epoch > ReadManifest.chk}}

\* Every store that opening the directory now may rebuild.
Recoveries ==
    {Replayed(ReadManifest, wal, n) : n \in {k \in 0..Len(wal) : ScansTo(wal, k)}}

Running == pc \notin {"closed", "failed"}

\* A write that returned Ok survives: whatever crashed, failed to sync, or was
\* half done (a checkpoint between its manifest and its truncation, a commit
\* between its frame and its manifest), open succeeds and replays it.
AckedRecoverable ==
    acked # {} =>
        /\ ReadManifest.state = "ok"
        /\ ~ScanFails(wal)
        /\ \A S \in Recoveries : acked \subseteq S

\* Readers of the open handle see nothing that a restart would take back,
\* except what another handle or the operating system has not: every commit
\* in the live store is on disk in the checkpoint or the WAL.
LiveIsRecoverable == Running => store \subseteq Recoverable

\* Two write attempts never end up under the same epoch in what recovery
\* brings back or in the live store, although a failed attempt hands its
\* epoch to the next one.
OneCommitPerEpoch ==
    \A S \in Recoveries \cup {store} : \A c, d \in S : c.epoch = d.epoch => c = d

\* A frame is chained to the frame before it: the tail cache that append
\* trusts is never behind the file, whoever appended or truncated it.
ChainedWal ==
    \A i \in 1..Len(wal) :
        wal[i].prev = IF i = 1 THEN 0 ELSE wal[i-1].op

\* A readable manifest is replaced only by one that is newer and at least as
\* far: no step publishes an older epoch, checkpoint or generation.
ManifestAdvances ==
    [][man' # man /\ man.state = "ok" /\ man'.state = "ok" =>
        /\ man'.gen > man.gen
        /\ man'.latest >= man.latest
        /\ man'.chk >= man.chk]_vars

\* The WAL loses a whole frame only to a power loss that had not synced it, or
\* after a checkpoint that holds it, or (never acknowledged) after one that
\* does not.
AckedFramesStay ==
    [][\A i \in 1..Len(wal) :
          LET c == CommitOf(wal[i])
          IN  (wal[i].whole /\ c \in acked
                /\ ~(i <= Len(wal') /\ wal'[i] = wal[i])) =>
                 (man.state = "ok" /\ c \in chk[man.chk])]_vars

\* A commit that reached the WAL does not stay invisible: it is applied to a
\* live store, after a restart if need be, or it is gone from the disk.
CommittedBecomesLive ==
    \A n \in 1..MaxOps :
        (\E c \in Recoverable : c.op = n) ~>
            ((\E c \in store : c.op = n) \/ ~\E c \in Recoverable : c.op = n)

-----------------------------------------------------------------------------
(* Why acknowledged commits survive: the inductive invariant *)

\* Only the last frame may be cut off, and only before recovery; frames are
\* chained.
WalShape ==
    /\ \A i \in 1..Len(wal) : i < Len(wal) \/ Running => wal[i].whole
    /\ ChainedWal

\* A tail cache of the right length is right, and one of an empty file is empty.
TailCurrent ==
    /\ Running /\ tail.len = Len(wal) => tail = TailFromScan(wal, Len(wal))
    /\ Running /\ tail.len = 0 => tail = TailFromScan(<<>>, 0)
    /\ pc = "append" => tail.len = Len(wal)

\* The manifest on disk is readable and its checkpoint is not in its future.
ManifestShape ==
    /\ man.state \in {"none", "ok"}
    /\ Running \/ acked # {} => man.state = "ok"
    /\ man.chk <= man.latest

\* How the handle and the manifest it writes relate to the one on disk.
HandleShape ==
    /\ Running => mem.state = "ok" /\ mem.chk <= man.chk /\ mem.chk <= mem.latest
    /\ pc = "append" => mem.chk = man.chk /\ man.latest <= mem.latest
    /\ pc \in {"backup", "publish"} =>
        /\ pend.state = "ok"
        /\ pend.chk <= pend.latest
        /\ mem.chk <= pend.chk
        /\ why # "checkpoint" => pend.chk = man.chk
        /\ why = "checkpoint" => chk[pend.chk] = store
        /\ why = "commit" => synced = Len(wal)
    /\ pc = "truncate" => pend = man /\ chk[man.chk] = store

\* c is in the checkpoint or in one of the first n frames of the WAL.
OnDisk(c, n) ==
    \/ c \in chk[man.chk]
    \/ \E i \in 1..n : wal[i].whole /\ wal[i].epoch > man.chk
                                    /\ c = CommitOf(wal[i])

\* An acknowledged commit is on stable storage and in the live store, and the
\* live store is on disk.
CommitsKept ==
    /\ \A c \in acked : OnDisk(c, synced)
    /\ Running => acked \subseteq store
    /\ Running => \A c \in store : OnDisk(c, Len(wal))

DurabilityInv ==
    WalShape /\ TailCurrent /\ ManifestShape /\ HandleShape /\ CommitsKept

=============================================================================
