---------------------------- MODULE ArtifactFile ----------------------------
(***************************************************************************)
(* Publication of an immutable perfcache artifact under a path,            *)
(* engine/src/perfcache_file_posix.c: laplace_perfcache_publish_file,      *)
(* which writes an artifact it is given, the file builder, which fills a   *)
(* shared mapping record by record, and the mappings readers open.         *)
(*                                                                         *)
(* Both ways end alike: a temporary file in the target's directory is      *)
(* synced, read back and linked to the path; a path that exists already is *)
(* compared; the temporary name is removed and the directory synced.  One  *)
(* action is one step other processes and a crash can observe: one system  *)
(* call, or several on the publisher's own descriptor.  Any step may fail, *)
(* any process may be killed, and the machine may crash.                   *)
(*                                                                         *)
(* The file system is external and as weak as POSIX leaves it: unsynced    *)
(* bytes may be lost; a directory entry that is not synced is, after a     *)
(* crash, any of the values it has had since the directory was last        *)
(* synced, each name for itself; and mkstemp may return a name that was    *)
(* used before.                                                            *)
(***************************************************************************)
EXTENDS Integers, TLC

CONSTANTS
  Publishers,   \* processes that publish
  Readers,      \* processes that map the artifact
  Artifacts,    \* complete artifacts, told apart by their digest
  Files,        \* inodes
  Temporaries,  \* names mkstemp returns
  Target,       \* the path
  NoFile,       \* no directory entry, no open file
  NoName,       \* the empty temporary_path
  NoArtifact,   \* no artifact
  RecordCount,  \* builder->record_count
  MaxLosses     \* bound on crashes, kills and failed unlinks together

ASSUME NamesAssumption ==
  /\ Target \notin Temporaries /\ NoName \notin Temporaries
  /\ NoFile \notin Files /\ NoArtifact \notin Artifacts
ASSUME CountAssumption == RecordCount \in Nat \ {0} /\ MaxLosses \in Nat

VARIABLES
  (* the file system *)
  dir,      \* the directory: the file of each name
  mayBe,    \* the entries of each name a crash may leave
  data,     \* the bytes of each file
  synced,   \* whether they survive a crash
  (* processes *)
  pub,      \* each publisher's call, or its builder between two calls
  map,      \* each reader's mapping
  (* history and bound *)
  acked,    \* the artifacts some call has returned OK for
  losses    \* crashes, kills and failed unlinks so far

fsVars == <<dir, mayBe, data, synced>>
vars == <<fsVars, pub, map, acked, losses>>

Names     == Temporaries \cup {Target}
File0     == Files \cup {NoFile}
Artifact0 == Artifacts \cup {NoArtifact}
Records   == 0..(RecordCount - 1)

\* The bytes of a file: which records of which artifact are written, and
\* whether the digest in the header is that of the bytes.
Contents == [art : Artifact0, records : SUBSET Records, sealed : BOOLEAN]

\* The bytes of a new file for a publisher of a.
Fresh(a) == [art |-> a, records |-> {}, sealed |-> FALSE]

\* The bytes of the whole artifact a.
Whole(a) == [art |-> a, records |-> Records, sealed |-> TRUE]

PCs == {"idle", "write", "sync", "build", "detach", "verify", "link",
        "compare", "unlink", "dirsync", "cleanup", "stale"}

\* pc: the step that is next; builder: whether this is a file builder;
\* file: the file behind the descriptor; temp: temporary_path;
\* next: builder->next_record_index.
Publisher == [pc : PCs, builder : BOOLEAN, art : Artifact0, file : File0,
              temp : Temporaries \cup {NoName}, next : 0..RecordCount]

Idle == [pc |-> "idle", builder |-> FALSE, art |-> NoArtifact, file |-> NoFile,
         temp |-> NoName, next |-> 0]

Unmapped == [file |-> NoFile, wanted |-> NoArtifact]

TypeOK ==
  /\ dir \in [Names -> File0]
  /\ mayBe \in [Names -> SUBSET File0]
  /\ data \in [Files -> Contents]
  /\ synced \in [Files -> BOOLEAN]
  /\ pub \in [Publishers -> Publisher]
  /\ map \in [Readers -> [file : File0, wanted : Artifact0]]
  /\ acked \in SUBSET Artifacts
  /\ losses \in 0..MaxLosses

Init ==
  /\ dir = [n \in Names |-> NoFile]
  /\ mayBe = [n \in Names |-> {NoFile}]
  /\ data = [f \in Files |-> Fresh(NoArtifact)]
  /\ synced = [f \in Files |-> FALSE]
  /\ pub = [p \in Publishers |-> Idle]
  /\ map = [r \in Readers |-> Unmapped]
  /\ acked = {}
  /\ losses = 0

-----------------------------------------------------------------------------
(* The directory.                                                          *)

\* The entry of name n becomes f, in memory.
SetEntry(n, f) ==
  /\ dir' = [dir EXCEPT ![n] = f]
  /\ mayBe' = [mayBe EXCEPT ![n] = @ \cup {f}]

\* Inodes that nothing refers to.
Unused == {f \in Files : /\ \A n \in Names : dir[n] # f /\ f \notin mayBe[n]
                         /\ \A p \in Publishers : pub[p].file # f
                         /\ \A r \in Readers : map[r].file # f}

\* mkstemp: a new file under a name nobody has, for a call of publisher p.
MakeTemporary(p, a, n, f, l) ==
  /\ pub[p].pc = "idle"
  /\ dir[n] = NoFile
  /\ f \in Unused
  /\ SetEntry(n, f)
  /\ data' = [data EXCEPT ![f] = Fresh(a)]
  /\ synced' = [synced EXCEPT ![f] = FALSE]
  /\ pub' = [pub EXCEPT ![p] = [pc |-> l, builder |-> l = "build", art |-> a,
                                file |-> f, temp |-> n, next |-> 0]]
  /\ UNCHANGED <<map, acked, losses>>

\* One more thing a crash, a kill or an unlink has lost.
Lose == losses < MaxLosses /\ losses' = losses + 1

\* The temporary name is removed and forgotten; an unlink that fails is
\* ignored.
RemoveTemporary(p) ==
  \/ SetEntry(pub[p].temp, NoFile) /\ UNCHANGED losses
  \/ Lose /\ UNCHANGED <<dir, mayBe>>

Goto(p, l) == pub' = [pub EXCEPT ![p].pc = l]

\* The step after one that failed: publish_file removes its temporary file,
\* the builder's seal returns and leaves that to destroy.
AfterFailure(p) == IF pub[p].builder THEN "stale" ELSE "cleanup"

\* The call returns; a builder remains.
Returned(q) == IF q.builder THEN [q EXCEPT !.pc = "stale"] ELSE Idle

-----------------------------------------------------------------------------
(* laplace_perfcache_publish_file, up to the synced temporary file.        *)

\* publish_file or builder_create returns an error before it has made a file:
\* the artifact given is not valid, or mkstemp fails.
Refuse(p) == pub[p].pc = "idle" /\ UNCHANGED vars

\* The artifact given is valid; mkstemp.
PublishFile(p, a, n, f) == MakeTemporary(p, a, n, f, "write")

\* What write_complete can leave: the artifact, or bytes that differ from
\* those written, which the code does not rule out.
Written(a) == [art : {a}, records : {Records}, sealed : BOOLEAN]

Write(p) ==
  /\ pub[p].pc = "write"
  /\ \E d \in Written(pub[p].art) :
       data' = [data EXCEPT ![pub[p].file] = d]
  /\ Goto(p, "sync")
  /\ UNCHANGED <<dir, mayBe, synced, map, acked, losses>>

\* Fault: the file is closed without fsync.
SyncSkipped(p) ==
  /\ pub[p].pc = "sync"
  /\ pub' = [pub EXCEPT ![p].pc = "verify", ![p].file = NoFile]
  /\ UNCHANGED <<fsVars, map, acked, losses>>

\* fsync and close.
Sync(p) ==
  /\ pub[p].pc = "sync"
  /\ synced' = [synced EXCEPT ![pub[p].file] = TRUE]
  /\ pub' = [pub EXCEPT ![p].pc = "verify", ![p].file = NoFile]
  /\ UNCHANGED <<dir, mayBe, data, map, acked, losses>>

\* fchmod, a write, the sync or the close fails; the descriptor is closed.
WriteFails(p) ==
  /\ pub[p].pc \in {"write", "sync"}
  /\ pub' = [pub EXCEPT ![p].pc = "cleanup", ![p].file = NoFile]
  /\ UNCHANGED <<fsVars, map, acked, losses>>

\* The end of publish_file after a failure.
Cleanup(p) ==
  /\ pub[p].pc = "cleanup"
  /\ RemoveTemporary(p)
  /\ pub' = [pub EXCEPT ![p] = Idle]
  /\ UNCHANGED <<data, synced, map, acked>>

-----------------------------------------------------------------------------
(* The file builder.                                                       *)

\* builder_create: a temporary file of full size, mapped shared.  When
\* ftruncate or mmap fails, create destroys the builder: Destroy follows.
BuilderCreate(p, a, n, f) == MakeTemporary(p, a, n, f, "build")

\* k records are copied to index first.
CopyRecords(p, first, k) ==
  /\ data' = [data EXCEPT ![pub[p].file] =
                [art |-> @.art, sealed |-> FALSE,
                 records |-> @.records \cup first..(first + k - 1)]]
  /\ synced' = [synced EXCEPT ![pub[p].file] = FALSE]
  /\ pub' = [pub EXCEPT ![p].next = @ + k]
  /\ UNCHANGED <<dir, mayBe, map, acked, losses>>

\* builder_append: k records at the next index.  Metadata, which is appended
\* along and bounded like the records, is not told apart from them.
Append(p, first, k) ==
  /\ pub[p].pc = "build"
  /\ first = pub[p].next
  /\ k <= RecordCount - pub[p].next
  /\ CopyRecords(p, first, k)

\* builder_seal up to msync: header and digest over whatever is mapped.  A
\* validator or msync may refuse; the builder then stays as it is (l is
\* "build") and may be sealed again.
Seal(p, l) ==
  /\ pub[p].pc = "build"
  /\ pub[p].next = RecordCount
  /\ l \in {"build", "detach"}
  /\ data' = [data EXCEPT ![pub[p].file] =
                [art |-> @.art, records |-> @.records, sealed |-> TRUE]]
  /\ synced' = [synced EXCEPT ![pub[p].file] = FALSE]
  /\ Goto(p, l)
  /\ UNCHANGED <<dir, mayBe, map, acked, losses>>

\* munmap, ftruncate, fchmod, fsync, close.
Detach(p) ==
  /\ pub[p].pc = "detach"
  /\ synced' = [synced EXCEPT ![pub[p].file] = TRUE]
  /\ pub' = [pub EXCEPT ![p].pc = "verify", ![p].file = NoFile]
  /\ UNCHANGED <<dir, mayBe, data, map, acked, losses>>

\* munmap fails and the mapping is kept, or a later call fails and seal
\* cannot be called again.
DetachFails(p, l) ==
  /\ pub[p].pc = "detach"
  /\ l \in {"build", "stale"}
  /\ Goto(p, l)
  /\ UNCHANGED <<fsVars, map, acked, losses>>

\* builder_destroy: close, and unlink a temporary path that is not empty.
Destroy(p) ==
  /\ pub[p].builder /\ pub[p].pc \in {"build", "stale"}
  /\ IF pub[p].temp # NoName THEN RemoveTemporary(p)
                              ELSE UNCHANGED <<dir, mayBe, losses>>
  /\ pub' = [pub EXCEPT ![p] = Idle]
  /\ UNCHANGED <<data, synced, map, acked>>

-----------------------------------------------------------------------------
(* What both have in common, from the synced temporary file on.            *)

\* Fault: the digest found is not compared with the one expected.
OpensAny(n, a) == dir[n] # NoFile /\ data[dir[n]].sealed

\* laplace_perfcache_mapping_open of name n, which checks the digest in the
\* header against the bytes, and the compare of that digest with a's.
Opens(n, a) ==
  dir[n] # NoFile /\ data[dir[n]].sealed /\ data[dir[n]].art = a

\* The temporary file is opened by its name, validated and compared.
Verify(p) ==
  /\ pub[p].pc = "verify"
  /\ Opens(pub[p].temp, pub[p].art)
  /\ Goto(p, "link")
  /\ UNCHANGED <<fsVars, map, acked, losses>>

\* link: the path did not exist.
Link(p) ==
  /\ pub[p].pc = "link"
  /\ dir[pub[p].temp] # NoFile
  /\ dir[Target] = NoFile
  /\ SetEntry(Target, dir[pub[p].temp])
  /\ Goto(p, "unlink")
  /\ UNCHANGED <<data, synced, map, acked, losses>>

\* link finds the path taken.
LinkExists(p) ==
  /\ pub[p].pc = "link"
  /\ dir[Target] # NoFile
  /\ Goto(p, "compare")
  /\ UNCHANGED <<fsVars, map, acked, losses>>

\* The file at the path is the same artifact: go on as if it had been linked.
Compare(p) ==
  /\ pub[p].pc = "compare"
  /\ Opens(Target, pub[p].art)
  /\ Goto(p, "unlink")
  /\ UNCHANGED <<fsVars, map, acked, losses>>

\* The read-back, the link or the compare fails, for want of resources or for
\* what it finds.
PublicationFails(p) ==
  /\ pub[p].pc \in {"verify", "link", "compare"}
  /\ Goto(p, AfterFailure(p))
  /\ UNCHANGED <<fsVars, map, acked, losses>>

\* unlink of the temporary name, which is forgotten.
Unlink(p) ==
  /\ pub[p].pc = "unlink"
  /\ SetEntry(pub[p].temp, NoFile)
  /\ pub' = [pub EXCEPT ![p].pc = "dirsync", ![p].temp = NoName]
  /\ UNCHANGED <<data, synced, map, acked, losses>>

\* unlink fails: publish_file does not care, the builder returns an error and
\* keeps the name for destroy.
UnlinkFails(p) ==
  /\ pub[p].pc = "unlink"
  /\ Lose
  /\ pub' = IF pub[p].builder
            THEN [pub EXCEPT ![p].pc = "stale"]
            ELSE [pub EXCEPT ![p].pc = "dirsync", ![p].temp = NoName]
  /\ UNCHANGED <<fsVars, map, acked>>

\* Fault: the directory is not synced before the call returns OK.
SyncDirectorySkipped(p) ==
  /\ pub[p].pc = "dirsync"
  /\ acked' = acked \cup {pub[p].art}
  /\ pub' = [pub EXCEPT ![p] = Returned(@)]
  /\ UNCHANGED <<fsVars, map, losses>>

\* sync_parent_directory, and the call returns OK.  A sealed builder can only
\* be destroyed.
SyncDirectory(p) ==
  /\ pub[p].pc = "dirsync"
  /\ mayBe' = [n \in Names |-> {dir[n]}]
  /\ acked' = acked \cup {pub[p].art}
  /\ pub' = [pub EXCEPT ![p] = Returned(@)]
  /\ UNCHANGED <<dir, data, synced, map, losses>>

\* The directory cannot be opened or synced: an error, although published.
SyncDirectoryFails(p) ==
  /\ pub[p].pc = "dirsync"
  /\ pub' = [pub EXCEPT ![p] = Returned(@)]
  /\ UNCHANGED <<fsVars, map, acked, losses>>

-----------------------------------------------------------------------------
(* Readers: the artifact provider of the registry.                         *)

\* file_provider_open: map the path, validate, compare with the digest wanted.
ProviderOpen(r, a) ==
  /\ map[r].file = NoFile
  /\ Opens(Target, a)
  /\ map' = [map EXCEPT ![r] = [file |-> dir[Target], wanted |-> a]]
  /\ UNCHANGED <<fsVars, pub, acked, losses>>

\* file_provider_close
ProviderClose(r) ==
  /\ map[r].file # NoFile
  /\ map' = [map EXCEPT ![r] = Unmapped]
  /\ UNCHANGED <<fsVars, pub, acked, losses>>

-----------------------------------------------------------------------------
(* Losses.                                                                 *)

\* A publisher is killed: its temporary file is nobody's.
Kill(p) ==
  /\ pub[p].pc # "idle"
  /\ Lose
  /\ pub' = [pub EXCEPT ![p] = Idle]
  /\ UNCHANGED <<fsVars, map, acked>>

\* The machine crashes: every entry is one the directory may be left with, and
\* the bytes of files that are not synced are kept or lost.
Crash ==
  /\ Lose
  /\ \E d \in [Names -> File0] :
       /\ \A n \in Names : d[n] \in mayBe[n]
       /\ dir' = d
       /\ mayBe' = [n \in Names |-> {d[n]}]
  /\ \E kept \in SUBSET Files :
       data' = [f \in Files |-> IF synced[f] \/ f \in kept
                               THEN data[f] ELSE Fresh(data[f].art)]
  /\ synced' = [f \in Files |-> TRUE]
  /\ pub' = [p \in Publishers |-> Idle]
  /\ map' = [r \in Readers |-> Unmapped]
  /\ UNCHANGED acked

-----------------------------------------------------------------------------

Start(p) ==
  \/ Refuse(p)
  \/ \E a \in Artifacts, n \in Temporaries, f \in Files :
       PublishFile(p, a, n, f) \/ BuilderCreate(p, a, n, f)

Fill(p) ==
  \/ Write(p) \/ Sync(p) \/ WriteFails(p) \/ Cleanup(p)
  \/ \E first, k \in 0..RecordCount : Append(p, first, k)
  \/ \E l \in PCs : Seal(p, l) \/ DetachFails(p, l)
  \/ Detach(p) \/ Destroy(p)

Publish(p) ==
  \/ Verify(p) \/ Link(p) \/ LinkExists(p) \/ Compare(p) \/ PublicationFails(p)
  \/ Unlink(p) \/ UnlinkFails(p) \/ SyncDirectory(p) \/ SyncDirectoryFails(p)

Next ==
  \/ \E p \in Publishers : Start(p) \/ Fill(p) \/ Publish(p) \/ Kill(p)
  \/ \E r \in Readers :
       ProviderClose(r) \/ \E a \in Artifacts : ProviderOpen(r, a)
  \/ Crash

Spec == Init /\ [][Next]_vars

-----------------------------------------------------------------------------
(* What publication promises.                                              *)

\* Whatever the path names is a whole artifact, in every state and after every
\* crash: a builder that was not filled, damaged bytes and lost writes are
\* never linked.
PublishedIsWhole ==
  dir[Target] # NoFile => \E a \in Artifacts : data[dir[Target]] = Whole(a)

\* An artifact some call has returned OK for is at the path from then on, also
\* after a crash and whoever linked it; so two artifacts never both succeed.
AcknowledgedStays ==
  \A a \in acked : dir[Target] # NoFile /\ data[dir[Target]].art = a

\* What a reader has mapped stays the whole artifact whose digest it asked
\* for, through every publication, cleanup and reuse of inodes.
MappedIsStable ==
  \A r \in Readers :
    map[r].file # NoFile => data[map[r].file] = Whole(map[r].wanted)

\* No publisher removes or takes over the temporary file of another: the name
\* it remembers is its own file's, and nobody else remembers that name.
OwnTemporary ==
  \A p \in Publishers : pub[p].temp # NoName =>
    /\ dir[pub[p].temp] # NoFile
    /\ pub[p].file # NoFile => dir[pub[p].temp] = pub[p].file
    /\ \A q \in Publishers \ {p} : pub[q].temp # pub[p].temp

\* The path, once it names a file, names that file until a crash: nobody
\* replaces or removes a published artifact.
NeverReplaced ==
  [][ dir[Target] # NoFile =>
        dir'[Target] = dir[Target] \/ losses' # losses ]_vars

\* The temporary names nobody will remove.
Litter == {n \in Temporaries : dir[n] # NoFile
                               /\ \A p \in Publishers : pub[p].temp # n}

\* A call that succeeds or fails leaves no temporary file behind; only a kill,
\* a crash or an unlink that fails does.
LitterNeedsALoss == [][ Litter' \subseteq Litter \/ losses' # losses ]_vars

\* For TLC: everything that is only compared is interchangeable.
Symmetry ==
  Permutations(Publishers) \cup Permutations(Artifacts)
    \cup Permutations(Files) \cup Permutations(Temporaries)
=============================================================================
