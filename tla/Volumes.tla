------------------------------ MODULE Volumes ------------------------------
(***************************************************************************)
(* The kernel's disk images (syscall_mount and syscall_unmount in          *)
(* core/kernel/syscalls.ts) over the file system of InMemoryFs, with the   *)
(* restarts of the machine.  The kernel keeps the file of each image it    *)
(* mounted in mountedVolumes and writes the image back on unmount; its     *)
(* snapshot has mountedVolumes, while the file system's own record of      *)
(* mounts is not part of any snapshot.                                     *)
(***************************************************************************)
EXTENDS InMemoryFs

CONSTANTS
  ImageFile,      \* the image files on the host's disk
  InitialImage,   \* what they hold at first: for each file a set of entries
  Unreadable,     \* what a file holds that mount cannot read
  MountPoint,     \* the paths at which images are mounted
  MaxMounts,      \* a bound on the mounts at one time
  MaxReboots, MaxCrashes,     \* bounds on the restarts
  RunOn           \* do programs go on with files once a rename made a cycle

\* An image is the tree of a directory: a path has one node, and the directory
\* of a node is a directory of the image (mount throws when it is not).
IsImage(tree) ==
  /\ tree \subseteq Entry
  /\ \A e, x \in tree : e.at = x.at => e = x
  /\ \A e \in tree : Len(e.at) > 1 =>
       \E x \in tree : x.at = Parent(e.at) /\ x.kind = "dir"

ASSUME ImageAssumption ==
  /\ DOMAIN InitialImage = ImageFile
  /\ \A f \in ImageFile : InitialImage[f] # Unreadable /\ IsImage(InitialImage[f])
  /\ MountPoint \subseteq Path
  /\ MaxMounts \in Nat /\ MaxReboots \in Nat /\ MaxCrashes \in Nat
  /\ RunOn \in BOOLEAN

VARIABLES
  volumes,    \* mountedVolumes: the image file of each mount point
  images,     \* the content of the image files
  writing,    \* mount points whose image is being written back
  known,      \* mountedVolumes in the snapshot that the host has of a kernel
  reboots, crashes        \* the restarts so far, of each kind

restarts == <<reboots, crashes>>
kernelVars == <<volumes, images, writing, known, restarts>>
vars == <<fsVars, kernelVars>>

VolumesInit ==
  /\ FsInit
  /\ volumes = <<>>
  /\ images = InitialImage
  /\ writing = {}
  /\ known = <<>>
  /\ reboots = 0 /\ crashes = 0

-----------------------------------------------------------------------------
\* While an unmount writes the file, mount may still have read what was there
\* (what it reads of a file half written does not parse, and nothing happens).
Readable(f) == images[f] # Unreadable

\* (mutation) mount asks the file system what is mounted.
Free_InFs(p) == p \notin DOMAIN mounts

Free(p) == p \notin DOMAIN volumes

FitsModel(p, f) ==
  /\ Cardinality(DOMAIN mounts) < MaxMounts
  /\ \A e \in images[f] : p \o e.at \in Path
  /\ Cardinality(DOMAIN WithMountPoint(p)) + Cardinality(images[f]) <= MaxNodes

\* The image is in place before the kernel enters it in mountedVolumes; when
\* the file system cannot persist it throws and the kernel does not.
Mount(f, p) ==
  /\ Readable(f) /\ Free(p) /\ FitsModel(p, f)
  /\ MountImage(p, images[f])
  /\ volumes' = IF circular THEN volumes
                ELSE [q \in DOMAIN volumes \cup {p} |-> IF q = p THEN f ELSE volumes[q]]
  /\ UNCHANGED <<images, writing, known, restarts>>

MountTaken(f, p) ==
  /\ Readable(f) /\ Free(p) /\ FitsModel(p, f)
  /\ MountFails(p, images[f])
  /\ UNCHANGED kernelVars

\* snap.nodes is no Map: values() throws once the mount point is made.
MountUnreadable(f, p) ==
  /\ images[f] = Unreadable /\ Free(p) /\ CanMountAt(p)
  /\ p \notin DOMAIN nodes
  /\ nodes' = WithMountPoint(p)
  /\ Persist(nodes')
  /\ UNCHANGED <<saved, missed, booted, circular, mounts, kernelVars>>

\* snapshotSubtree needs the mount point, then the file system unmounts; an
\* image that the kernel did not enter is not written back.
Unmount(p) ==
  /\ p \in DOMAIN volumes => IsDir(nodes, p)
  /\ UnmountImage(p)
  /\ writing' = IF p \in DOMAIN volumes /\ ~circular THEN writing \cup {p} ELSE writing
  /\ UNCHANGED <<volumes, images, known, restarts>>

\* JSON.stringify writes the Map of the nodes of the subtree as {}.
WriteBack(p) ==
  /\ p \in writing
  /\ images' = [images EXCEPT ![volumes[p]] = Unreadable]
  /\ volumes' = [q \in DOMAIN volumes \ {p} |-> volumes[q]]
  /\ writing' = writing \ {p}
  /\ UNCHANGED <<fsVars, known, restarts>>

WriteBackFails(p) ==
  /\ p \in writing
  /\ writing' = writing \ {p}
  /\ UNCHANGED <<fsVars, volumes, images, known, restarts>>

-----------------------------------------------------------------------------
\* reboot saves a snapshot, which fails on a cycle, and the next kernel is
\* restored from it: the host saves it after the calls of save_fs under way and
\* before it answers load_snapshot.  A write that has begun ends, for the old
\* kernel only.
Reboot ==
  /\ ~circular
  /\ Restore(Serialized(nodes))
  /\ saved' = nodes' /\ booted' = TRUE
  /\ known' = volumes
  /\ images' = [f \in ImageFile |->
                  IF \E p \in writing : volumes[p] = f THEN Unreadable ELSE images[f]]
  /\ writing' = {}
  /\ reboots < MaxReboots /\ reboots' = reboots + 1
  /\ UNCHANGED <<volumes, crashes>>

\* The machine stops without a word (or reboot cannot save its snapshot, which
\* nobody notices): the next kernel boots with what the host has.
Crash ==
  /\ Restore(saved)
  /\ volumes' = known
  /\ \E torn \in SUBSET {volumes[p] : p \in writing} :
       images' = [f \in ImageFile |-> IF f \in torn THEN Unreadable ELSE images[f]]
  /\ writing' = {}
  /\ crashes < MaxCrashes /\ crashes' = crashes + 1
  /\ UNCHANGED <<saved, booted, known, reboots>>

VolumesNext ==
  \/ (circular => RunOn) /\ FileOp /\ UNCHANGED kernelVars
  \/ SaveEnds /\ UNCHANGED kernelVars
  \/ \E p \in MountPoint, f \in ImageFile :
       Mount(f, p) \/ MountTaken(f, p) \/ MountUnreadable(f, p)
  \/ \E p \in Path : Unmount(p) \/ WriteBack(p) \/ WriteBackFails(p)
  \/ Reboot
  \/ Crash

Spec == VolumesInit /\ [][VolumesNext]_vars

-----------------------------------------------------------------------------
(***************************************************************************)
(* Properties                                                              *)
(***************************************************************************)
\* Every name a directory lists can be opened: the children of a node and the
\* map of paths name the same things, through renames of whole subtrees,
\* mounts that fail half way, unmounts and restarts.
LinksResolve ==
  \A p \in DOMAIN nodes : \A n \in nodes[p].kids : Append(p, n) \in DOMAIN nodes

\* The nodes that can be opened and stand in no directory that lists them.
Listed(fs, p) == IsDir(fs, Parent(p)) /\ Base(p) \in fs[Parent(p)].kids
Orphans(fs) == {p \in DOMAIN fs \ {Root} : ~Listed(fs, p)}

\* What three operations leave behind: an unmount, of what was made in the
\* directories of the image; a rename after a restart, which moves copies, of what
\* was made since below the directory it moves; and a rename of a directory into
\* itself, of what was below it.
LeftBehind(q) ==
  \/ \E p \in DOMAIN mounts : \E e \in mounts[p].image :
       UnmountImage(p) /\ Parent(q) = p \o e.at
  \/ \E old, new \in Path :
       /\ Within(old, q)
       /\ \/ Rename(old, new) /\ \E p \in Subtree(nodes, old) : nodes[p].copies # {}
          \/ RenameIntoItself(old, new)

\* Nothing else ever leaves a node that can be opened and is listed nowhere, which
\* can neither be found nor removed until its directory is made anew: no create,
\* write or remove, no mount, whole or half way, no restart and no other rename.
NoNewOrphans ==
  [][Orphans(nodes) = {} /\ Orphans(saved) = {}
       => \A q \in Orphans(nodes') : LeftBehind(q)]_vars

\* Nothing that was removed, renamed or overwritten comes back after a crash, once
\* the host has handled the calls of save_fs and the last did not fail: what is on
\* disk is in memory, with the same content.  (The entries of a mount that failed
\* are in memory only.)  It ends with the first snapshot of a kernel, which is then
\* booted from whatever save_fs has written since.
DiskFollows ==
  ~circular /\ ~booted /\ saves = <<>> /\ ~missed =>
    \A p \in DOMAIN saved :
      /\ p \in DOMAIN nodes
      /\ nodes[p].kind = saved[p].kind /\ nodes[p].data = saved[p].data

\* The kernel knows the image of everything that is mounted, and no mount
\* point is taken again before its image is back on the disk.
VolumesRegistered ==
  ~circular => /\ DOMAIN mounts \subseteq DOMAIN volumes
               /\ writing \subseteq DOMAIN volumes \ DOMAIN mounts

-----------------------------------------------------------------------------
(***************************************************************************)
(* What the repository says of the program, and the code does not keep     *)
(***************************************************************************)
\* docs/kernel.md:23: loading a snapshot recreates the same environment: after
\* a restart too, a rename takes the files below a directory along as they are.
RenameKeepsFiles ==
  [][\A old, new \in Path :
       Rename(old, new) =>
         \A p \in DOMAIN nodes :
           Within(old, p) =>
             LET q == new \o Rest(old, p)
             IN q \in DOMAIN nodes' /\ nodes'[q].data = nodes[p].data]_vars
=============================================================================
