----------------------------- MODULE FuseMount -----------------------------
(***************************************************************************)
(* Mounting the filesystem: MountManager (fuse/src/mount.rs),              *)
(* LedgerFuseService (fuse/src/lib.rs) and the main of the ledgerfs-fuse   *)
(* binary around the manager, composed with the filesystem they serve.     *)
(*                                                                         *)
(* The mount runs in a blocking task: fuser::mount2 (external) mounts,     *)
(* serves requests until the mount is gone, and drops the filesystem; a    *)
(* panic of a handler ends it too, and unmounts.  fusermount (external)    *)
(* may be missing, may fail, and has nothing to do before the mount is     *)
(* there.  A lazy unmount takes the mount from the tree at once; the task  *)
(* goes on for those who still use it.  tokio's runtime (external) waits,  *)
(* when it is dropped, for the blocking tasks that have started, and       *)
(* forgets the others.                                                     *)
(***************************************************************************)
EXTENDS LedgerFilesystem

VARIABLES
    owner,     \* who mounts: "manager" or "service"
    main,      \* where the owner's mount call is
    outcome,   \* what it returned
    task,      \* the blocking task
    end,       \* how the task ended
    attempts   \* history: what the manager's runs of fusermount came to

fsVars    == <<tables, repoVars, cursor>>
mountVars == <<owner, main, outcome, task, end, attempts>>
allVars   == <<fsVars, mountVars>>

Running == task \in {"starting", "mounted", "detached"}

FuseInit ==
    /\ FsInit
    /\ owner \in {"manager", "service"}
    /\ main = "idle" /\ outcome = "none"
    /\ task = "none" /\ end = "none"
    /\ attempts = <<>>

----------------------------------------------------------------------------
(* The blocking task.                                                      *)

\* The closure runs.  The owner still holds the Arc, so try_unwrap fails and
\* the task gets a clone of the tables as new() made them.
TaskStarts ==
    /\ task = "queued"
    /\ task' = "starting"
    /\ UNCHANGED <<fsVars, owner, main, outcome, end, attempts>>

Mounts ==
    /\ task = "starting"
    /\ task' = "mounted"
    /\ UNCHANGED <<fsVars, owner, main, outcome, end, attempts>>

\* Mutant: the next mount goes on with the tables of this one.
EndsKeeping(how) ==
    /\ task' = "ended" /\ end' = how
    /\ cursor' = NoCursor
    /\ UNCHANGED <<tables, repoVars>>

\* The task's filesystem goes with it.
Ends(how) ==
    /\ task' = "ended" /\ end' = how
    /\ inode_map' = NewInodeMap /\ path_map' = NewPathMap /\ next_inode' = NewNextInode
    /\ cursor' = NoCursor
    /\ UNCHANGED repoVars

MountFails == task = "starting" /\ Ends("error") /\ UNCHANGED <<owner, main, outcome, attempts>>

\* A handler panics, and with it the session.
ReadPanics ==
    /\ task \in {"mounted", "detached"}
    /\ cursor.state = "open"
    /\ read_panics(inode_map[cursor.ino])
    /\ Ends("panic")
    /\ UNCHANGED <<owner, main, outcome, attempts>>

\* Someone else unmounts, or the last user of a detached mount leaves.
SessionEnds ==
    /\ task \in {"mounted", "detached"}
    /\ Ends("ok")
    /\ UNCHANGED <<owner, main, outcome, attempts>>

Serve ==
    /\ task \in {"mounted", "detached"}
    /\ Request
    /\ UNCHANGED mountVars

----------------------------------------------------------------------------
(* The owners.                                                             *)

\* mount_and_serve creates the mount point, mount does not; both spawn the task.
Spawn ==
    /\ main \in {"idle", "returned"} /\ task \in {"none", "ended"}
    /\ main' = "waiting" /\ outcome' = "none"
    /\ task' = "queued" /\ end' = "none"
    /\ attempts' = <<>>
    /\ UNCHANGED <<fsVars, owner>>

Returns(how) == main' = "returned" /\ outcome' = how

\* create_dir_all(..)?
NoMountPoint ==
    /\ owner = "manager" /\ main = "idle"
    /\ Returns("err")
    /\ UNCHANGED <<fsVars, owner, task, end, attempts>>

\* The manager only logs how the task ended; the service returns it (`.await??`).
TaskAwaited ==
    /\ main = "waiting" /\ task = "ended"
    /\ Returns(IF owner = "manager" \/ end = "ok" THEN "ok" ELSE "err")
    /\ UNCHANGED <<fsVars, owner, task, end, attempts>>

\* select! takes the signal and drops the handle, which does not stop the task.
CtrlC ==
    /\ owner = "manager" /\ main = "waiting"
    /\ main' = "unmounting"
    /\ UNCHANGED <<fsVars, owner, outcome, task, end, attempts>>

\* What a run of fusermount may come to.
Fusermount(res) ==
    /\ res = "done" => task = "mounted"
    /\ attempts' = Append(attempts, res)

\* Mutant: the fallback is forgotten.
UnmountNoFallback ==
    /\ main = "unmounting"
    /\ \/ /\ Fusermount("done") /\ Ends("ok") /\ Returns("ok")
       \/ /\ Fusermount("failed") /\ Returns("ok") /\ UNCHANGED <<fsVars, task, end>>
       \/ /\ Fusermount("missing") /\ Returns("err") /\ UNCHANGED <<fsVars, task, end>>
    /\ UNCHANGED owner

\* The manager's `fusermount -u`.
Unmount ==
    /\ main = "unmounting"
    /\ \/ /\ Fusermount("done") /\ Ends("ok") /\ Returns("ok")
       \/ /\ Fusermount("failed") /\ main' = "lazy" /\ UNCHANGED <<fsVars, outcome, task, end>>
       \/ /\ Fusermount("missing") /\ Returns("err") /\ UNCHANGED <<fsVars, task, end>>
    /\ UNCHANGED owner

\* `fusermount -uz`, whose result is ignored.
LazyUnmount ==
    /\ main = "lazy"
    /\ \/ Fusermount("done") /\ task' = "detached"
       \/ Fusermount("failed") /\ UNCHANGED task
    /\ Returns("ok")
    /\ UNCHANGED <<fsVars, owner, end>>

\* LedgerFuseService::unmount, called while mount is awaited.  There is no
\* fallback: when fusermount fails, the caller gets the error and nothing else
\* happens.
ServiceUnmount ==
    /\ owner = "service" /\ main = "waiting"
    /\ task = "mounted"
    /\ Ends("ok")
    /\ UNCHANGED <<owner, main, outcome, attempts>>

\* The binary's main returns, and the runtime is dropped with what it had queued.
RuntimeDropped ==
    /\ main = "returned" /\ task = "queued"
    /\ Ends("dropped")
    /\ UNCHANGED <<owner, main, outcome, attempts>>

FuseNext ==
    \/ TaskStarts \/ Mounts \/ MountFails \/ ReadPanics \/ SessionEnds
    \/ Serve
    \/ RepositoryStep /\ UNCHANGED mountVars
    \/ Spawn \/ NoMountPoint \/ TaskAwaited \/ CtrlC \/ Unmount \/ LazyUnmount
    \/ ServiceUnmount \/ RuntimeDropped

FuseSpec == FuseInit /\ [][FuseNext]_allVars

----------------------------------------------------------------------------
FuseTypeOK ==
    /\ FsTypeOK
    /\ main \in {"idle", "waiting", "unmounting", "lazy", "returned"}
    /\ outcome \in {"none", "ok", "err"}
    /\ task \in {"none", "queued", "starting", "mounted", "detached", "ended"}
    /\ end \in {"none", "ok", "error", "panic", "dropped"}
    /\ ~Running => next_inode = NewNextInode /\ cursor = NoCursor

\* As long as a mount is served, an inode stands for the same path.
InodeStable ==
    [][Running /\ task' # "ended" =>
         \A i \in Inodes : i \in DOMAIN inode_map' /\ inode_map'[i] = inode_map[i]]_allVars

\* What an Ok may leave behind.  The service returns Ok only once its mount is
\* gone.  The manager returns Ok, and the binary prints "LedgerFS unmounted
\* successfully", with a mount still there or still to come only if both forms
\* of fusermount were tried, the first in vain; if the second worked, what is
\* left is out of the tree.
LeftBehind ==
    outcome = "ok" /\ main = "returned" /\ task # "ended" =>
        /\ owner = "manager"
        /\ Len(attempts) = 2 /\ attempts[1] # "done"
        /\ attempts[2] = "done" => task = "detached"
============================================================================
