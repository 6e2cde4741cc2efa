------------------------- MODULE ArtifactFileProofs -------------------------
(***************************************************************************)
(* What ArtifactFile promises, for every number of publishers, readers,    *)
(* files, names, records, crashes and kills.                               *)
(***************************************************************************)
EXTENDS ArtifactFile, TLAPS

-----------------------------------------------------------------------------
(* The inductive invariant.                                                *)

\* An entry a crash may leave for the path is the present one, and its file is
\* whole and synced.
EntriesAreSafe ==
  /\ \A n \in Names : dir[n] \in mayBe[n]
  /\ \A f \in mayBe[Target] : f # NoFile =>
       f = dir[Target] /\ synced[f] /\ \E a \in Artifacts : data[f] = Whole(a)

\* What a publisher in state q has at each step.
Writing  == {"write", "sync", "build", "detach"}
Checking == {"verify", "link"}

HandlesOf(q) ==
  /\ q.pc = "idle" => q = Idle
  /\ q.pc # "idle" => q.art \in Artifacts
  /\ q.pc \in Writing => q.file # NoFile
  /\ q.pc \in Checking \cup {"compare", "unlink", "cleanup"} =>
       q.file = NoFile /\ q.temp # NoName
  /\ q.pc = "dirsync" => q.temp = NoName
  /\ q.file # NoFile => q.temp # NoName /\ dir[q.temp] = q.file
  /\ q.temp # NoName => dir[q.temp] # NoFile

HandlesFit == \A p \in Publishers : HandlesOf(pub[p])

\* No publisher writes to a file that is published, mapped or another's.
Apart ==
  /\ \A p \in Publishers : pub[p].file # NoFile =>
       /\ pub[p].file \notin mayBe[Target]
       /\ \A r \in Readers : map[r].file # pub[p].file
  /\ \A p, q \in Publishers : p # q /\ pub[p].temp # NoName =>
       pub[q].temp # pub[p].temp /\ pub[q].file # dir[pub[p].temp]

\* The bytes d hold all records of artifact a, sealed or not.
Complete(d, a) == d.art = a /\ d.records = Records

\* What the file of a publisher in state q holds at each step, and what the
\* path names once it is linked or compared.
BytesOf(q) ==
  /\ q.pc = "sync" => Complete(data[q.file], q.art)
  /\ q.pc \in {"build", "detach"} =>
       data[q.file].art = q.art /\ data[q.file].records = 0..(q.next - 1)
  /\ q.pc = "detach" => q.next = RecordCount
  /\ q.pc \in Checking =>
       synced[dir[q.temp]] /\ Complete(data[dir[q.temp]], q.art)
  /\ q.pc = "link" => data[dir[q.temp]].sealed
  /\ q.pc \in {"unlink", "dirsync"} =>
       dir[Target] # NoFile /\ data[dir[Target]].art = q.art

BytesFit == \A p \in Publishers : BytesOf(pub[p])

\* An acknowledged artifact is at the path in memory and on disk.
AckedIsSynced ==
  \A a \in acked : NoFile \notin mayBe[Target] /\ data[dir[Target]].art = a

IInv ==
  /\ TypeOK
  /\ EntriesAreSafe
  /\ HandlesFit
  /\ Apart
  /\ BytesFit
  /\ MappedIsStable
  /\ AckedIsSynced

-----------------------------------------------------------------------------
(* Steps that touch no file: only the publisher moves on.                  *)

\* The steps that are named in the actions are steps.
LEMMA StepNames ==
  /\ "sync" \in PCs /\ "verify" \in PCs /\ "cleanup" \in PCs /\ "link" \in PCs
  /\ "unlink" \in PCs /\ "compare" \in PCs /\ "dirsync" \in PCs
  /\ "stale" \in PCs /\ "write" \in PCs /\ "build" \in PCs /\ "idle" \in PCs
  /\ NoFile \in File0 /\ NoName \in Temporaries \cup {NoName}
BY DEF PCs, File0

\* A publisher between calls has a publisher's type.
LEMMA IdleType == Idle \in Publisher
BY CountAssumption, StepNames DEF Idle, Publisher, Artifact0, File0

\* A publisher that goes on, closes its file or forgets its name stays one.
LEMMA MoveType ==
  ASSUME NEW q \in Publisher, NEW l \in PCs
  PROVE  /\ [q EXCEPT !.pc = l] \in Publisher
         /\ [q EXCEPT !.pc = l, !.file = NoFile] \in Publisher
         /\ [q EXCEPT !.pc = l, !.temp = NoName] \in Publisher
BY StepNames DEF Publisher

\* Publisher p becomes q, which keeps or drops its file and its name and
\* fits what is on disk, and nothing else changes: the invariant is kept.
LEMMA Moves ==
  ASSUME IInv, NEW p \in Publishers, NEW q \in Publisher,
         pub' = [pub EXCEPT ![p] = q],
         q.temp \in {pub[p].temp, NoName}, q.file \in {pub[p].file, NoFile},
         HandlesOf(q), BytesOf(q),
         UNCHANGED <<fsVars, map, acked>>, losses' \in 0..MaxLosses
  PROVE  IInv'
<1> USE DEF IInv, fsVars
<1>1. TypeOK'
  BY DEF TypeOK
<1>2. pub'[p] = q /\ \A x \in Publishers \ {p} : pub'[x] = pub[x]
  BY DEF TypeOK
<1>3. EntriesAreSafe' /\ MappedIsStable' /\ AckedIsSynced'
  BY DEF EntriesAreSafe, MappedIsStable, AckedIsSynced
<1>4. HandlesFit'
  BY <1>2 DEF HandlesFit, HandlesOf
<1>5. Apart'
  <2>1. \A x \in Publishers : pub'[x].temp \in {pub[x].temp, NoName}
                              /\ pub'[x].file \in {pub[x].file, NoFile}
    BY <1>2
  <2>2. ASSUME NEW x \in Publishers, NEW y \in Publishers, x # y,
               pub'[x].temp # NoName
        PROVE  pub'[y].temp # pub'[x].temp /\ pub'[y].file # dir[pub'[x].temp]
    BY <2>1, <2>2 DEF Apart, HandlesFit, HandlesOf
  <2>3. QED
    BY <2>1, <2>2 DEF Apart
<1>6. BytesFit'
  BY <1>2 DEF BytesFit, BytesOf
<1>7. QED
  BY <1>1, <1>3, <1>4, <1>5, <1>6

\* What the invariant says of one publisher.
LEMMA OfPublisher ==
  ASSUME IInv, NEW p \in Publishers
  PROVE  pub[p] \in Publisher /\ HandlesOf(pub[p]) /\ BytesOf(pub[p])
BY DEF IInv, TypeOK, HandlesFit, BytesFit

\* A publisher that returns to idle keeps the invariant: a kill, a call that
\* ends.
LEMMA MovesToIdle ==
  ASSUME IInv, NEW p \in Publishers, pub' = [pub EXCEPT ![p] = Idle],
         UNCHANGED <<fsVars, map, acked>>, losses' \in 0..MaxLosses
  PROVE  IInv'
<1>1. HandlesOf(Idle) /\ BytesOf(Idle)
  BY DEF HandlesOf, BytesOf, Idle, Writing, Checking
<1>2. Idle.temp = NoName /\ Idle.file = NoFile
  BY DEF Idle
<1>3. QED
  BY <1>1, <1>2, IdleType, Moves

\* A failed write keeps the invariant.
LEMMA KeepsWriteFails ==
  ASSUME IInv, NEW p \in Publishers, WriteFails(p)
  PROVE  IInv'
<1> DEFINE q == [pub[p] EXCEPT !.pc = "cleanup", !.file = NoFile]
<1>1. q \in Publisher /\ pub[p] \in Publisher
  BY OfPublisher, MoveType, StepNames DEF WriteFails
<1>2. /\ q.pc = "cleanup" /\ q.file = NoFile /\ q.temp = pub[p].temp
      /\ q.art = pub[p].art /\ q.next = pub[p].next
  BY <1>1 DEF Publisher
<1>3. HandlesOf(q) /\ BytesOf(q)
  BY <1>1, <1>2, OfPublisher, NamesAssumption
     DEF HandlesOf, BytesOf, Writing, Checking, WriteFails
<1>4. pub' = [pub EXCEPT ![p] = q]
  BY DEF WriteFails
<1>5. UNCHANGED <<fsVars, map, acked>> /\ losses' \in 0..MaxLosses
  BY CountAssumption DEF WriteFails, IInv, TypeOK, Lose
<1> HIDE DEF q
<1>6. QED
  BY <1>1, <1>2, <1>3, <1>4, <1>5, Moves

\* The read-back keeps the invariant.
LEMMA KeepsVerify ==
  ASSUME IInv, NEW p \in Publishers, Verify(p)
  PROVE  IInv'
<1> DEFINE q == [pub[p] EXCEPT !.pc = "link"]
<1>1. q \in Publisher /\ pub[p] \in Publisher
  BY OfPublisher, MoveType, StepNames DEF Verify, Opens, Goto
<1>2. /\ q.pc = "link" /\ q.file = pub[p].file /\ q.temp = pub[p].temp
      /\ q.art = pub[p].art /\ q.next = pub[p].next
  BY <1>1 DEF Publisher
<1>3. HandlesOf(q) /\ BytesOf(q)
  BY <1>1, <1>2, OfPublisher, NamesAssumption
     DEF HandlesOf, BytesOf, Writing, Checking, Verify, Opens, Goto
<1>4. pub' = [pub EXCEPT ![p] = q]
  BY DEF Verify, Opens, Goto
<1>5. UNCHANGED <<fsVars, map, acked>> /\ losses' \in 0..MaxLosses
  BY CountAssumption DEF Verify, Opens, Goto, IInv, TypeOK, Lose
<1> HIDE DEF q
<1>6. QED
  BY <1>1, <1>2, <1>3, <1>4, <1>5, Moves

\* A link that finds the path taken keeps the invariant.
LEMMA KeepsLinkExists ==
  ASSUME IInv, NEW p \in Publishers, LinkExists(p)
  PROVE  IInv'
<1> DEFINE q == [pub[p] EXCEPT !.pc = "compare"]
<1>1. q \in Publisher /\ pub[p] \in Publisher
  BY OfPublisher, MoveType, StepNames DEF LinkExists, Goto
<1>2. /\ q.pc = "compare" /\ q.file = pub[p].file /\ q.temp = pub[p].temp
      /\ q.art = pub[p].art /\ q.next = pub[p].next
  BY <1>1 DEF Publisher
<1>3. HandlesOf(q) /\ BytesOf(q)
  BY <1>1, <1>2, OfPublisher, NamesAssumption
     DEF HandlesOf, BytesOf, Writing, Checking, LinkExists, Goto
<1>4. pub' = [pub EXCEPT ![p] = q]
  BY DEF LinkExists, Goto
<1>5. UNCHANGED <<fsVars, map, acked>> /\ losses' \in 0..MaxLosses
  BY CountAssumption DEF LinkExists, Goto, IInv, TypeOK, Lose
<1> HIDE DEF q
<1>6. QED
  BY <1>1, <1>2, <1>3, <1>4, <1>5, Moves

\* The compare with the file at the path keeps the invariant.
LEMMA KeepsCompare ==
  ASSUME IInv, NEW p \in Publishers, Compare(p)
  PROVE  IInv'
<1> DEFINE q == [pub[p] EXCEPT !.pc = "unlink"]
<1>1. q \in Publisher /\ pub[p] \in Publisher
  BY OfPublisher, MoveType, StepNames DEF Compare, Opens, Goto
<1>2. /\ q.pc = "unlink" /\ q.file = pub[p].file /\ q.temp = pub[p].temp
      /\ q.art = pub[p].art /\ q.next = pub[p].next
  BY <1>1 DEF Publisher
<1>3. HandlesOf(q) /\ BytesOf(q)
  BY <1>1, <1>2, OfPublisher, NamesAssumption
     DEF HandlesOf, BytesOf, Writing, Checking, Compare, Opens, Goto
<1>4. pub' = [pub EXCEPT ![p] = q]
  BY DEF Compare, Opens, Goto
<1>5. UNCHANGED <<fsVars, map, acked>> /\ losses' \in 0..MaxLosses
  BY CountAssumption DEF Compare, Opens, Goto, IInv, TypeOK, Lose
<1> HIDE DEF q
<1>6. QED
  BY <1>1, <1>2, <1>3, <1>4, <1>5, Moves

\* A publication that fails keeps the invariant.
LEMMA KeepsPublicationFails ==
  ASSUME IInv, NEW p \in Publishers, PublicationFails(p)
  PROVE  IInv'
<1> DEFINE q == [pub[p] EXCEPT !.pc = AfterFailure(p)]
<1>1. q \in Publisher /\ pub[p] \in Publisher
  BY OfPublisher, MoveType, StepNames DEF PublicationFails, AfterFailure, Goto
<1>2. /\ q.pc = AfterFailure(p) /\ q.file = pub[p].file /\ q.temp = pub[p].temp
      /\ q.art = pub[p].art /\ q.next = pub[p].next
  BY <1>1 DEF Publisher
<1>3. HandlesOf(q) /\ BytesOf(q)
  BY <1>1, <1>2, OfPublisher, NamesAssumption
     DEF HandlesOf, BytesOf, Writing, Checking, PublicationFails,
         AfterFailure, Goto
<1>4. pub' = [pub EXCEPT ![p] = q]
  BY DEF PublicationFails, AfterFailure, Goto
<1>5. UNCHANGED <<fsVars, map, acked>> /\ losses' \in 0..MaxLosses
  BY CountAssumption
     DEF PublicationFails, AfterFailure, Goto, IInv, TypeOK, Lose
<1> HIDE DEF q
<1>6. QED
  BY <1>1, <1>2, <1>3, <1>4, <1>5, Moves

\* A builder_seal that fails late keeps the invariant.
LEMMA KeepsDetachFails ==
  ASSUME IInv, NEW p \in Publishers, NEW l \in PCs, DetachFails(p, l)
  PROVE  IInv'
<1> DEFINE q == [pub[p] EXCEPT !.pc = l]
<1>1. q \in Publisher /\ pub[p] \in Publisher
  BY OfPublisher, MoveType, StepNames DEF DetachFails, Goto
<1>2. /\ q.pc = l /\ q.file = pub[p].file /\ q.temp = pub[p].temp
      /\ q.art = pub[p].art /\ q.next = pub[p].next
  BY <1>1 DEF Publisher
<1>3. HandlesOf(q) /\ BytesOf(q)
  BY <1>1, <1>2, OfPublisher, NamesAssumption
     DEF HandlesOf, BytesOf, Writing, Checking, DetachFails, Goto
<1>4. pub' = [pub EXCEPT ![p] = q]
  BY DEF DetachFails, Goto
<1>5. UNCHANGED <<fsVars, map, acked>> /\ losses' \in 0..MaxLosses
  BY CountAssumption DEF DetachFails, Goto, IInv, TypeOK, Lose
<1> HIDE DEF q
<1>6. QED
  BY <1>1, <1>2, <1>3, <1>4, <1>5, Moves

\* A killed publisher keeps the invariant.
LEMMA KeepsKill ==
  ASSUME IInv, NEW p \in Publishers, Kill(p)
  PROVE  IInv'
<1>1. UNCHANGED <<fsVars, map, acked>> /\ losses' \in 0..MaxLosses
  BY CountAssumption DEF Kill, IInv, TypeOK, Lose
<1>2. QED
  BY <1>1, MovesToIdle DEF Kill

\* A call that returns without a change to the files keeps the invariant.
LEMMA MovesToReturn ==
  ASSUME IInv, NEW p \in Publishers, pub' = [pub EXCEPT ![p] = Returned(@)],
         UNCHANGED <<fsVars, map, acked, losses>>
  PROVE  IInv'
<1> DEFINE q == [pub[p] EXCEPT !.pc = "stale"]
<1>1. q \in Publisher /\ pub[p] \in Publisher
  BY OfPublisher, MoveType, StepNames
<1>2. /\ q.pc = "stale" /\ q.file = pub[p].file /\ q.temp = pub[p].temp
      /\ q.art \in Artifacts \/ pub[p].pc = "idle"
  BY <1>1, OfPublisher DEF Publisher, HandlesOf
<1>3. losses' \in 0..MaxLosses
  BY DEF IInv, TypeOK
<1>4. CASE pub[p].builder
  <2>1. pub' = [pub EXCEPT ![p] = q]
    BY <1>4 DEF Returned
  <2>2. pub[p].pc # "idle"
    BY <1>4, OfPublisher DEF HandlesOf, Idle
  <2>3. HandlesOf(q) /\ BytesOf(q)
    BY <1>1, <1>2, <2>2, OfPublisher DEF HandlesOf, BytesOf, Writing, Checking
  <2> HIDE DEF q
  <2>4. QED
    BY <1>1, <1>2, <1>3, <2>1, <2>3, Moves
<1>5. CASE ~pub[p].builder
  BY <1>3, <1>5, MovesToIdle DEF Returned
<1>6. QED
  BY <1>4, <1>5

\* A failed sync_parent_directory keeps the invariant.
LEMMA KeepsSyncDirectoryFails ==
  ASSUME IInv, NEW p \in Publishers, SyncDirectoryFails(p)
  PROVE  IInv'
BY MovesToReturn DEF SyncDirectoryFails

\* A failed unlink keeps the invariant.
LEMMA KeepsUnlinkFails ==
  ASSUME IInv, NEW p \in Publishers, UnlinkFails(p)
  PROVE  IInv'
<1> DEFINE q == IF pub[p].builder THEN [pub[p] EXCEPT !.pc = "stale"]
                ELSE [pub[p] EXCEPT !.pc = "dirsync", !.temp = NoName]
<1>1. q \in Publisher /\ pub[p] \in Publisher
  BY OfPublisher, MoveType, StepNames
<1>2. /\ q.file = pub[p].file /\ q.art = pub[p].art
      /\ \/ q.pc = "stale" /\ q.temp = pub[p].temp
         \/ q.pc = "dirsync" /\ q.temp = NoName
  BY <1>1 DEF Publisher
<1>3. pub[p].file = NoFile
  BY OfPublisher DEF UnlinkFails, HandlesOf
<1>4. pub' = [pub EXCEPT ![p] = q]
  BY DEF UnlinkFails
<1>5. UNCHANGED <<fsVars, map, acked>> /\ losses' \in 0..MaxLosses
  BY CountAssumption DEF UnlinkFails, IInv, TypeOK, Lose
<1> HIDE DEF q
<1>6. HandlesOf(q) /\ BytesOf(q)
  BY <1>1, <1>2, <1>3, OfPublisher
     DEF UnlinkFails, HandlesOf, BytesOf, Writing, Checking
<1>7. QED
  BY <1>1, <1>2, <1>4, <1>5, <1>6, Moves

-----------------------------------------------------------------------------
(* Steps that write to the publisher's own file.                           *)

\* Publisher p writes or syncs its own file and closes it or not: what the
\* path names, what readers have mapped and what the others wrote is
\* untouched.
LEMMA Writes ==
  ASSUME IInv, NEW p \in Publishers, NEW q \in Publisher,
         pub[p].pc \in Writing,
         pub' = [pub EXCEPT ![p] = q],
         q.temp = pub[p].temp, q.file \in {pub[p].file, NoFile}, HandlesOf(q),
         NEW d \in Contents, NEW s \in BOOLEAN,
         data' = [data EXCEPT ![pub[p].file] = d],
         synced' = [synced EXCEPT ![pub[p].file] = s],
         UNCHANGED <<dir, mayBe, map, acked, losses>>,
         BytesOf(pub[p])'
  PROVE  IInv'
<1> DEFINE f == pub[p].file
<1> USE DEF IInv
<1>1. f \in Files
  BY OfPublisher DEF HandlesOf, Publisher, File0
<1>2. TypeOK'
  BY <1>1 DEF TypeOK
<1>3. pub'[p] = q /\ \A x \in Publishers \ {p} : pub'[x] = pub[x]
  BY DEF TypeOK
<1>4. \A g \in Files \ {f} : data'[g] = data[g] /\ synced'[g] = synced[g]
  BY <1>1 DEF TypeOK
<1>5. f # NoFile /\ f \notin mayBe[Target] /\ mayBe[Target] \subseteq File0
  BY <1>1, NamesAssumption DEF Apart, TypeOK, Names
<1>6. EntriesAreSafe'
  BY <1>4, <1>5 DEF EntriesAreSafe, File0
<1>7. HandlesFit'
  BY <1>3 DEF HandlesFit, HandlesOf
<1>8. Apart'
  BY <1>3, OfPublisher DEF Apart, HandlesOf
<1>9. \A x \in Publishers \ {p} : BytesOf(pub[x])'
  <2> SUFFICES ASSUME NEW x \in Publishers \ {p}
               PROVE  BytesOf(pub[x])'
    OBVIOUS
  <2>1. pub[x] \in Publisher /\ HandlesOf(pub[x]) /\ BytesOf(pub[x])
    BY OfPublisher
  <2>2. pub[x].pc \in Writing => pub[x].file \in Files \ {f}
    BY <1>1, <2>1, OfPublisher DEF HandlesOf, Apart, Publisher, File0
  <2>3. pub[x].pc \in Checking => dir[pub[x].temp] \in Files \ {f}
    BY <1>5, <2>1 DEF HandlesOf, Apart, Publisher, File0, TypeOK, Names
  <2>4. dir[Target] # NoFile => dir[Target] \in Files \ {f}
    BY <1>5 DEF EntriesAreSafe, TypeOK, Names, File0
  <2>5. QED
    BY <1>3, <1>4, <2>1, <2>2, <2>3, <2>4
       DEF BytesOf, Writing, Checking, Complete
<1>10. MappedIsStable'
  BY <1>4, <1>5 DEF MappedIsStable, Apart, TypeOK, File0
<1>11. AckedIsSynced'
  BY <1>4, <1>5 DEF AckedIsSynced, EntriesAreSafe, TypeOK, Names, File0
<1>12. QED
  BY <1>2, <1>6, <1>7, <1>8, <1>9, <1>10, <1>11 DEF BytesFit

\* write_complete keeps the invariant.
LEMMA KeepsWrite ==
  ASSUME IInv, NEW p \in Publishers, Write(p)
  PROVE  IInv'
<1> DEFINE f == pub[p].file
<1> DEFINE q == [pub[p] EXCEPT !.pc = "sync"]
<1>1. /\ pub[p] \in Publisher /\ HandlesOf(pub[p]) /\ BytesOf(pub[p])
      /\ pub[p].pc \in Writing /\ f \in Files
  BY OfPublisher DEF HandlesOf, Writing, Publisher, File0, Write, Goto
<1>2. q \in Publisher
  BY <1>1, MoveType, StepNames
<1>3. /\ q.pc = "sync" /\ q.file = pub[p].file /\ q.temp = pub[p].temp
      /\ q.art = pub[p].art /\ q.next = pub[p].next
  BY <1>1 DEF Publisher
<1>4. PICK d \in Written(pub[p].art) :
        /\ data' = [data EXCEPT ![f] = d]
        /\ synced' = [synced EXCEPT ![f] = synced[f]]
        /\ synced[f] \in BOOLEAN /\ d \in Contents
  <2>1. PICK d \in Written(pub[p].art) : data' = [data EXCEPT ![f] = d]
    BY DEF Write
  <2>2. d \in Contents
    BY <1>1, <2>1 DEF Written, Contents, Publisher
  <2>3. synced' = [synced EXCEPT ![f] = synced[f]] /\ synced[f] \in BOOLEAN
    BY <1>1 DEF Write, IInv, TypeOK
  <2>4. QED
    BY <2>1, <2>2, <2>3
<1>5. HandlesOf(q)
  BY <1>1, <1>3 DEF HandlesOf, Writing, Checking, Write, Goto
<1>6. pub' = [pub EXCEPT ![p] = q] /\ pub'[p] = q
  BY DEF Write, Goto, IInv, TypeOK
<1> HIDE DEF q
<1>7. BytesOf(pub[p])'
  <2>1. data'[f] = d
    BY <1>1, <1>4 DEF IInv, TypeOK
  <2>2. QED
    BY <1>3, <1>6, <2>1 DEF BytesOf, Written, Complete, Checking
<1>8. QED
  BY <1>1, <1>2, <1>3, <1>4, <1>5, <1>6, <1>7, Writes DEF Write, Goto

\* fsync and close keep the invariant.
LEMMA KeepsSync ==
  ASSUME IInv, NEW p \in Publishers, Sync(p)
  PROVE  IInv'
<1> DEFINE f == pub[p].file
<1> DEFINE q == [pub[p] EXCEPT !.pc = "verify", !.file = NoFile]
<1>1. /\ pub[p] \in Publisher /\ HandlesOf(pub[p]) /\ BytesOf(pub[p])
      /\ pub[p].pc \in Writing /\ f \in Files
  BY OfPublisher DEF HandlesOf, Writing, Publisher, File0, Sync
<1>2. q \in Publisher
  BY <1>1, MoveType, StepNames
<1>3. /\ q.pc = "verify" /\ q.file = NoFile /\ q.temp = pub[p].temp
      /\ q.art = pub[p].art /\ q.next = pub[p].next
  BY <1>1 DEF Publisher
<1>4. /\ data' = [data EXCEPT ![f] = data[f]] /\ data[f] \in Contents
      /\ synced' = [synced EXCEPT ![f] = TRUE]
  BY <1>1 DEF Sync, IInv, TypeOK
<1>5. HandlesOf(q)
  BY <1>1, <1>3 DEF HandlesOf, Writing, Checking, Sync
<1>6. pub' = [pub EXCEPT ![p] = q] /\ pub'[p] = q
  BY DEF Sync, IInv, TypeOK
<1> HIDE DEF q
<1>7. BytesOf(pub[p])'
  <2>1. data'[f] = data[f] /\ synced'[f] /\ dir'[pub[p].temp] = f
    BY <1>1, <1>4 DEF Sync, HandlesOf, IInv, TypeOK
  <2>2. QED
    BY <1>1, <1>3, <1>6, <2>1 DEF BytesOf, Sync, Checking
<1>8. QED
  BY <1>1, <1>2, <1>3, <1>4, <1>5, <1>6, <1>7, Writes DEF Sync

\* munmap, fsync and close of a builder keep the invariant.
LEMMA KeepsDetach ==
  ASSUME IInv, NEW p \in Publishers, Detach(p)
  PROVE  IInv'
<1> DEFINE f == pub[p].file
<1> DEFINE q == [pub[p] EXCEPT !.pc = "verify", !.file = NoFile]
<1>1. /\ pub[p] \in Publisher /\ HandlesOf(pub[p]) /\ BytesOf(pub[p])
      /\ pub[p].pc \in Writing /\ f \in Files
  BY OfPublisher DEF HandlesOf, Writing, Publisher, File0, Detach
<1>2. q \in Publisher
  BY <1>1, MoveType, StepNames
<1>3. /\ q.pc = "verify" /\ q.file = NoFile /\ q.temp = pub[p].temp
      /\ q.art = pub[p].art /\ q.next = pub[p].next
  BY <1>1 DEF Publisher
<1>4. /\ data' = [data EXCEPT ![f] = data[f]] /\ data[f] \in Contents
      /\ synced' = [synced EXCEPT ![f] = TRUE]
  BY <1>1 DEF Detach, IInv, TypeOK
<1>5. HandlesOf(q)
  BY <1>1, <1>3 DEF HandlesOf, Writing, Checking, Detach
<1>6. pub' = [pub EXCEPT ![p] = q] /\ pub'[p] = q
  BY DEF Detach, IInv, TypeOK
<1> HIDE DEF q
<1>7. BytesOf(pub[p])'
  <2>1. data'[f] = data[f] /\ synced'[f] /\ dir'[pub[p].temp] = f
    BY <1>1, <1>4 DEF Detach, HandlesOf, IInv, TypeOK
  <2>2. Complete(data[f], pub[p].art)
    BY <1>1 DEF Detach, BytesOf, Complete, Records
  <2>3. QED
    BY <1>3, <1>6, <2>1, <2>2 DEF BytesOf, Detach, Checking
<1>8. QED
  BY <1>1, <1>2, <1>3, <1>4, <1>5, <1>6, <1>7, Writes DEF Detach

\* builder_append keeps the invariant.
LEMMA KeepsAppend ==
  ASSUME IInv, NEW p \in Publishers, NEW first \in 0..RecordCount,
         NEW k \in 0..RecordCount, Append(p, first, k)
  PROVE  IInv'
<1> DEFINE f == pub[p].file
<1> DEFINE q == [pub[p] EXCEPT !.next = @ + k]
<1> DEFINE d == [art |-> data[f].art, sealed |-> FALSE,
                records |-> data[f].records \cup first..(first + k - 1)]
<1>1. /\ pub[p] \in Publisher /\ HandlesOf(pub[p]) /\ BytesOf(pub[p])
      /\ pub[p].pc \in Writing /\ f \in Files
  BY OfPublisher DEF HandlesOf, Writing, Publisher, File0, Append, CopyRecords
<1>a. /\ pub[p].next + k \in 0..RecordCount /\ first = pub[p].next
      /\ first..(first + k - 1) \subseteq Records /\ pub[p].pc = "build"
  BY <1>1, CountAssumption DEF Append, Publisher, Records
<1>2. q \in Publisher
  BY <1>1, <1>a DEF Publisher
<1>3. /\ q.pc = "build" /\ q.file = f /\ q.temp = pub[p].temp
      /\ q.art = pub[p].art /\ q.next = pub[p].next + k
  BY <1>1, <1>a DEF Publisher
<1>4. /\ data' = [data EXCEPT ![f] = d] /\ d \in Contents
      /\ synced' = [synced EXCEPT ![f] = FALSE]
  BY <1>1, <1>a DEF Append, CopyRecords, Contents, IInv, TypeOK
<1>5. HandlesOf(q)
  BY <1>1, <1>3 DEF HandlesOf, Writing, Checking, Append, CopyRecords
<1>6. pub' = [pub EXCEPT ![p] = q] /\ pub'[p] = q
  BY DEF Append, CopyRecords, IInv, TypeOK
<1> HIDE DEF q
<1>7. BytesOf(pub[p])'
  <2>1. data'[f] = d
    BY <1>1, <1>4 DEF IInv, TypeOK
  <2>2. d.art = q.art /\ d.records = 0..(q.next - 1)
    <3>1. first \in Nat /\ k \in Nat
      BY CountAssumption
    <3>2. 0..(first - 1) \cup first..(first + k - 1) = 0..(first + k - 1)
      BY <3>1
    <3>3. data[f].art = q.art /\ data[f].records = 0..(first - 1)
      BY <1>1, <1>3, <1>a DEF BytesOf
    <3>4. QED
      BY <1>3, <1>a, <3>2, <3>3
  <2>3. QED
    BY <1>3, <1>6, <2>1, <2>2 DEF BytesOf, Checking
<1>8. QED
  BY <1>1, <1>2, <1>3, <1>4, <1>5, <1>6, <1>7, Writes DEF Append, CopyRecords

\* builder_seal up to msync keeps the invariant.
LEMMA KeepsSeal ==
  ASSUME IInv, NEW p \in Publishers, NEW l \in PCs, Seal(p, l)
  PROVE  IInv'
<1> DEFINE f == pub[p].file
<1> DEFINE q == [pub[p] EXCEPT !.pc = l]
<1> DEFINE d == [art |-> data[f].art, records |-> data[f].records,
                sealed |-> TRUE]
<1>1. /\ pub[p] \in Publisher /\ HandlesOf(pub[p]) /\ BytesOf(pub[p])
      /\ pub[p].pc \in Writing /\ f \in Files
  BY OfPublisher DEF HandlesOf, Writing, Publisher, File0, Seal, Goto
<1>2. q \in Publisher
  BY <1>1, MoveType
<1>3. /\ q.pc = l /\ q.file = pub[p].file /\ q.temp = pub[p].temp
      /\ q.art = pub[p].art /\ q.next = pub[p].next
  BY <1>1 DEF Publisher
<1>4. /\ data' = [data EXCEPT ![f] = d] /\ d \in Contents
      /\ synced' = [synced EXCEPT ![f] = FALSE]
  BY <1>1 DEF Seal, Contents, IInv, TypeOK
<1>5. HandlesOf(q)
  BY <1>1, <1>3 DEF HandlesOf, Writing, Checking, Seal, Goto
<1>6. pub' = [pub EXCEPT ![p] = q] /\ pub'[p] = q
  BY DEF Seal, Goto, IInv, TypeOK
<1> HIDE DEF q
<1>7. BytesOf(pub[p])'
  <2>1. data'[f] = d
    BY <1>1, <1>4 DEF IInv, TypeOK
  <2>2. QED
    BY <1>1, <1>3, <1>6, <2>1 DEF Seal, BytesOf, Checking
<1>8. QED
  BY <1>1, <1>2, <1>3, <1>4, <1>5, <1>6, <1>7, Writes DEF Seal, Goto

-----------------------------------------------------------------------------
(* Steps that change directory entries.                                    *)

\* Publisher p removes its temporary name and forgets it: no other name and
\* no other publisher is affected.
LEMMA Removes ==
  ASSUME IInv, NEW p \in Publishers, NEW q \in Publisher,
         pub[p].temp # NoName, SetEntry(pub[p].temp, NoFile),
         pub' = [pub EXCEPT ![p] = q], q.temp = NoName, q.file = NoFile,
         HandlesOf(q), BytesOf(q),
         UNCHANGED <<data, synced, map, acked, losses>>
  PROVE  IInv'
<1> DEFINE n == pub[p].temp
<1> USE DEF IInv
<1>1. n \in Temporaries /\ n \in Names /\ n # Target /\ Target \in Names
  BY OfPublisher, NamesAssumption DEF Publisher, Names
<1>2. pub'[p] = q /\ \A x \in Publishers \ {p} : pub'[x] = pub[x]
  BY DEF TypeOK
<1>3. /\ \A m \in Names \ {n} : dir'[m] = dir[m] /\ mayBe'[m] = mayBe[m]
      /\ dir'[n] = NoFile /\ mayBe'[n] = mayBe[n] \cup {NoFile}
  BY <1>1 DEF SetEntry, TypeOK
<1>4. TypeOK'
  BY <1>1 DEF SetEntry, TypeOK, File0
<1>5. EntriesAreSafe'
  BY <1>1, <1>3 DEF EntriesAreSafe
<1>6. ASSUME NEW x \in Publishers \ {p}, pub[x].temp # NoName
      PROVE  dir'[pub[x].temp] = dir[pub[x].temp] /\ pub[x].temp # n
  BY <1>1, <1>3, <1>6, OfPublisher DEF Apart, Publisher, Names
<1>7. HandlesFit'
  <2>1. HandlesOf(q)'
    BY DEF HandlesOf
  <2>2. \A x \in Publishers \ {p} : HandlesOf(pub[x])'
    BY <1>2, <1>6, OfPublisher DEF HandlesOf
  <2>3. QED
    BY <1>2, <2>1, <2>2 DEF HandlesFit
<1>8. Apart'
  <2>1. ASSUME NEW x \in Publishers, pub'[x].file # NoFile
        PROVE  /\ pub'[x].file \notin mayBe'[Target]
               /\ \A r \in Readers : map'[r].file # pub'[x].file
    BY <1>1, <1>2, <1>3, <2>1 DEF Apart
  <2>2. ASSUME NEW x \in Publishers, NEW y \in Publishers, x # y,
               pub'[x].temp # NoName
        PROVE  /\ pub'[y].temp # pub'[x].temp
               /\ pub'[y].file # dir'[pub'[x].temp]
    BY <1>2, <1>6, <2>2, OfPublisher DEF Apart, HandlesOf
  <2>3. QED
    BY <2>1, <2>2 DEF Apart
<1>9. BytesFit'
  <2>1. q.pc \notin Writing /\ q.pc \notin Checking
    BY DEF HandlesOf
  <2>2. BytesOf(q)'
    BY <1>1, <1>3, <2>1 DEF BytesOf, Writing, Checking
  <2>3. ASSUME NEW x \in Publishers \ {p}
        PROVE  BytesOf(pub[x])'
    <3>1. HandlesOf(pub[x]) /\ BytesOf(pub[x])
      BY OfPublisher
    <3>2. pub[x].pc \in Checking => dir'[pub[x].temp] = dir[pub[x].temp]
      BY <1>6, <3>1 DEF HandlesOf
    <3>3. QED
      BY <1>1, <1>2, <1>3, <3>1, <3>2 DEF BytesOf, Complete, Checking
  <2>4. QED
    BY <1>2, <2>2, <2>3 DEF BytesFit
<1>10. MappedIsStable' /\ AckedIsSynced'
  BY <1>1, <1>3 DEF MappedIsStable, AckedIsSynced
<1>11. QED
  BY <1>4, <1>5, <1>7, <1>8, <1>9, <1>10

\* A publisher that removes its name, or fails to, and returns to idle.
LEMMA RemovesToIdle ==
  ASSUME IInv, NEW p \in Publishers, pub[p].temp # NoName,
         RemoveTemporary(p), pub' = [pub EXCEPT ![p] = Idle],
         UNCHANGED <<data, synced, map, acked>>
  PROVE  IInv'
<1>1. CASE SetEntry(pub[p].temp, NoFile) /\ UNCHANGED losses
  <2>1. HandlesOf(Idle) /\ BytesOf(Idle)
    BY DEF HandlesOf, BytesOf, Idle, Writing, Checking
  <2>2. Idle.temp = NoName /\ Idle.file = NoFile
    BY DEF Idle
  <2>3. QED
    BY <1>1, <2>1, <2>2, IdleType, Removes
<1>2. CASE Lose /\ UNCHANGED <<dir, mayBe>>
  <2>1. losses' \in 0..MaxLosses
    BY <1>2, CountAssumption DEF IInv, TypeOK, Lose
  <2>2. QED
    BY <1>2, <2>1, MovesToIdle DEF fsVars
<1>3. QED
  BY <1>1, <1>2 DEF RemoveTemporary

\* The end of a publish_file that failed keeps the invariant.
LEMMA KeepsCleanup ==
  ASSUME IInv, NEW p \in Publishers, Cleanup(p)
  PROVE  IInv'
<1>1. pub[p].temp # NoName
  BY OfPublisher DEF Cleanup, HandlesOf
<1>2. QED
  BY <1>1, RemovesToIdle DEF Cleanup

\* builder_destroy keeps the invariant.
LEMMA KeepsDestroy ==
  ASSUME IInv, NEW p \in Publishers, Destroy(p)
  PROVE  IInv'
<1>1. CASE pub[p].temp # NoName
  BY <1>1, RemovesToIdle DEF Destroy
<1>2. CASE pub[p].temp = NoName
  <2>1. losses' \in 0..MaxLosses
    BY <1>2 DEF Destroy, IInv, TypeOK
  <2>2. QED
    BY <1>2, <2>1, MovesToIdle DEF Destroy, fsVars
<1>3. QED
  BY <1>1, <1>2

\* unlink of the temporary name keeps the invariant.
LEMMA KeepsUnlink ==
  ASSUME IInv, NEW p \in Publishers, Unlink(p)
  PROVE  IInv'
<1> DEFINE q == [pub[p] EXCEPT !.pc = "dirsync", !.temp = NoName]
<1>1. q \in Publisher /\ pub[p] \in Publisher
  BY OfPublisher, MoveType, StepNames
<1>2. pub[p].file = NoFile /\ pub[p].temp # NoName
  BY OfPublisher DEF Unlink, HandlesOf
<1>3. /\ q.pc = "dirsync" /\ q.temp = NoName /\ q.file = NoFile
      /\ q.art = pub[p].art
  BY <1>1, <1>2 DEF Publisher
<1>4. HandlesOf(q) /\ BytesOf(q)
  BY <1>1, <1>3, OfPublisher DEF Unlink, HandlesOf, BytesOf, Writing, Checking
<1>5. pub' = [pub EXCEPT ![p] = q]
  BY DEF Unlink
<1> HIDE DEF q
<1>6. QED
  BY <1>1, <1>2, <1>3, <1>4, <1>5, Removes DEF Unlink

\* sync_parent_directory and the return OK keep the invariant: what the path
\* names becomes the only entry a crash can leave.
LEMMA KeepsSyncDirectory ==
  ASSUME IInv, NEW p \in Publishers, SyncDirectory(p)
  PROVE  IInv'
<1> USE DEF IInv
<1> DEFINE a == pub[p].art
<1>1. /\ a \in Artifacts /\ dir[Target] # NoFile /\ data[dir[Target]].art = a
      /\ pub[p].temp = NoName /\ pub[p].file = NoFile /\ pub[p] \in Publisher
  BY OfPublisher DEF SyncDirectory, HandlesOf, BytesOf
<1>2. \E q \in Publisher :
        /\ pub' = [pub EXCEPT ![p] = q] /\ q.temp = NoName /\ q.file = NoFile
        /\ HandlesOf(q) /\ q.pc \in {"idle", "stale"}
  <2>1. CASE pub[p].builder
    <3> DEFINE q == [pub[p] EXCEPT !.pc = "stale"]
    <3>1. q \in Publisher
      BY <1>1, MoveType, StepNames
    <3>2. /\ q.pc = "stale" /\ q.temp = NoName /\ q.file = NoFile
          /\ q.art \in Artifacts
      BY <1>1 DEF Publisher
    <3>3. HandlesOf(q)
      BY <3>2 DEF HandlesOf, Writing, Checking
    <3>4. pub' = [pub EXCEPT ![p] = q]
      BY <2>1 DEF SyncDirectory, Returned
    <3> HIDE DEF q
    <3>5. QED
      BY <3>1, <3>2, <3>3, <3>4
  <2>2. CASE ~pub[p].builder
    <3>1. pub' = [pub EXCEPT ![p] = Idle]
      BY <2>2 DEF SyncDirectory, Returned
    <3>2. /\ Idle.pc = "idle" /\ Idle.temp = NoName /\ Idle.file = NoFile
          /\ HandlesOf(Idle)
      BY DEF Idle, HandlesOf, Writing, Checking
    <3>3. QED
      BY <3>1, <3>2, IdleType
  <2>3. QED
    BY <2>1, <2>2
<1>3. PICK q \in Publisher :
        /\ pub' = [pub EXCEPT ![p] = q] /\ q.temp = NoName /\ q.file = NoFile
        /\ HandlesOf(q) /\ q.pc \in {"idle", "stale"}
  BY <1>2
<1>4. pub'[p] = q /\ \A x \in Publishers \ {p} : pub'[x] = pub[x]
  BY <1>3 DEF TypeOK
<1>5. \A m \in Names : mayBe'[m] = {dir[m]} /\ dir[m] \in mayBe[m]
  BY DEF SyncDirectory, EntriesAreSafe
<1>6. TypeOK'
  BY <1>1, <1>3 DEF SyncDirectory, TypeOK
<1>7. EntriesAreSafe'
  BY <1>1, <1>5 DEF SyncDirectory, EntriesAreSafe, Names
<1>8. HandlesFit'
  BY <1>3, <1>4 DEF SyncDirectory, HandlesFit, HandlesOf
<1>9. Apart'
  BY <1>3, <1>4, <1>5, OfPublisher DEF SyncDirectory, Apart, HandlesOf, Names
<1>10. BytesFit'
  BY <1>3, <1>4 DEF SyncDirectory, BytesFit, BytesOf, Checking
<1>11. MappedIsStable'
  BY DEF SyncDirectory, MappedIsStable
<1>12. AckedIsSynced'
  BY <1>1, <1>5 DEF SyncDirectory, AckedIsSynced, Names
<1>13. QED
  BY <1>6, <1>7, <1>8, <1>9, <1>10, <1>11, <1>12

\* link keeps the invariant: the path did not exist, and the file that was
\* synced and read back is whole.
LEMMA KeepsLink ==
  ASSUME IInv, NEW p \in Publishers, Link(p)
  PROVE  IInv'
<1> USE DEF IInv
<1> DEFINE f == dir[pub[p].temp]
<1> DEFINE q == [pub[p] EXCEPT !.pc = "unlink"]
<1>1. /\ pub[p] \in Publisher /\ pub[p].temp \in Temporaries
      /\ pub[p].art \in Artifacts /\ pub[p].file = NoFile
  BY OfPublisher DEF Link, HandlesOf, Checking, Publisher
<1>2. /\ f \in Files /\ f # NoFile /\ synced[f] /\ data[f] = Whole(pub[p].art)
  <2>1. f \in Files /\ f # NoFile
    BY <1>1, NamesAssumption DEF Link, TypeOK, Names, File0
  <2>2. synced[f] /\ Complete(data[f], pub[p].art) /\ data[f].sealed
    BY OfPublisher DEF Link, BytesOf, Checking
  <2>3. data[f] \in Contents
    BY <2>1 DEF TypeOK
  <2>4. QED
    BY <2>1, <2>2, <2>3 DEF Complete, Whole, Contents
<1>3. q \in Publisher
  BY <1>1, MoveType, StepNames
<1>4. /\ q.pc = "unlink" /\ q.file = NoFile /\ q.temp = pub[p].temp
      /\ q.art = pub[p].art
  BY <1>1 DEF Publisher
<1>5. pub' = [pub EXCEPT ![p] = q]
  BY DEF Link, Goto
<1> HIDE DEF q
<1>6. pub'[p] = q /\ \A x \in Publishers \ {p} : pub'[x] = pub[x]
  BY <1>5 DEF TypeOK
<1>7. /\ \A m \in Temporaries : dir'[m] = dir[m] /\ mayBe'[m] = mayBe[m]
      /\ dir'[Target] = f /\ mayBe'[Target] = mayBe[Target] \cup {f}
      /\ UNCHANGED <<data, synced, map, acked, losses>>
  BY NamesAssumption DEF Link, SetEntry, TypeOK, Names
<1>8. mayBe[Target] \subseteq {NoFile}
  BY DEF Link, EntriesAreSafe
<1>9. TypeOK'
  BY <1>2, <1>3, <1>5 DEF Link, SetEntry, TypeOK, File0
<1>10. EntriesAreSafe'
  BY <1>1, <1>2, <1>7, <1>8 DEF EntriesAreSafe, Names
<1>11. \A x \in Publishers : pub[x].temp # NoName =>
         pub[x].temp \in Temporaries /\ dir'[pub[x].temp] = dir[pub[x].temp]
  BY <1>7, OfPublisher DEF Publisher
<1>12. HandlesFit'
  <2>1. HandlesOf(pub[p])'
    BY <1>1, <1>2, <1>4, <1>6, <1>7, NamesAssumption
       DEF HandlesOf, Writing, Checking
  <2>2. \A x \in Publishers \ {p} : HandlesOf(pub[x])'
    BY <1>6, <1>11, OfPublisher DEF HandlesOf
  <2>3. QED
    BY <2>1, <2>2 DEF HandlesFit
<1>13. Apart'
  <2>1. \A x \in Publishers : /\ pub'[x].temp = pub[x].temp
                              /\ pub'[x].file = pub[x].file
    BY <1>1, <1>4, <1>6
  <2>2. ASSUME NEW x \in Publishers, pub[x].file # NoFile
        PROVE  pub[x].file # f
    BY <1>1, <2>2, NamesAssumption DEF Apart
  <2>3. QED
    BY <1>7, <1>11, <2>1, <2>2 DEF Apart
<1>14. BytesFit'
  <2>1. BytesOf(pub[p])'
    BY <1>2, <1>4, <1>6, <1>7 DEF BytesOf, Checking, Whole
  <2>2. ASSUME NEW x \in Publishers \ {p}
        PROVE  BytesOf(pub[x])'
    <3>1. HandlesOf(pub[x]) /\ BytesOf(pub[x])
      BY OfPublisher
    <3>2. pub[x].pc \notin {"unlink", "dirsync"}
      BY <3>1 DEF Link, BytesOf
    <3>3. QED
      BY <1>6, <1>7, <1>11, <3>1, <3>2
         DEF BytesOf, HandlesOf, Complete, Checking
  <2>3. QED
    BY <2>1, <2>2 DEF BytesFit
<1>15. MappedIsStable'
  BY <1>7 DEF MappedIsStable
<1>16. AckedIsSynced'
  <2>1. acked = {}
    BY DEF Link, AckedIsSynced, EntriesAreSafe, Names
  <2>2. QED
    BY <1>7, <2>1 DEF AckedIsSynced
<1>17. QED
  BY <1>9, <1>10, <1>12, <1>13, <1>14, <1>15, <1>16

\* mkstemp keeps the invariant: the name is nobody's and the file is new.
LEMMA KeepsMakeTemporary ==
  ASSUME IInv, NEW p \in Publishers, NEW a \in Artifacts,
         NEW n \in Temporaries, NEW f \in Files, NEW l \in {"write", "build"},
         MakeTemporary(p, a, n, f, l)
  PROVE  IInv'
<1> USE DEF IInv
<1> DEFINE q == [pc |-> l, builder |-> l = "build", art |-> a, file |-> f,
                 temp |-> n, next |-> 0]
<1>1. q \in Publisher
  BY CountAssumption, StepNames DEF Publisher, Artifact0, File0
<1>2. q.pc = l /\ q.art = a /\ q.file = f /\ q.temp = n /\ q.next = 0
  OBVIOUS
<1>3. pub' = [pub EXCEPT ![p] = q]
  BY DEF MakeTemporary
<1> HIDE DEF q
<1>4. pub'[p] = q /\ \A x \in Publishers \ {p} : pub'[x] = pub[x]
  BY <1>3 DEF TypeOK
<1>5. /\ n \in Names /\ n # Target /\ n # NoName /\ Target \in Names
      /\ f # NoFile /\ dir[n] = NoFile
      /\ \A m \in Names : dir[m] # f /\ f \notin mayBe[m]
      /\ \A x \in Publishers : pub[x].file # f
      /\ \A r \in Readers : map[r].file # f
  BY NamesAssumption DEF MakeTemporary, Unused, Names
<1>6. /\ \A m \in Names \ {n} : dir'[m] = dir[m] /\ mayBe'[m] = mayBe[m]
      /\ dir'[n] = f /\ mayBe'[n] = mayBe[n] \cup {f}
      /\ \A g \in Files \ {f} : data'[g] = data[g] /\ synced'[g] = synced[g]
      /\ data'[f] = Fresh(a)
      /\ UNCHANGED <<map, acked, losses>>
  BY <1>5 DEF MakeTemporary, SetEntry, TypeOK
<1>7. TypeOK'
  <2>1. Fresh(a) \in Contents
    BY DEF Fresh, Contents, Artifact0
  <2>2. QED
    BY <1>1, <1>3, <1>5, <2>1 DEF MakeTemporary, SetEntry, TypeOK, File0
<1>8. EntriesAreSafe'
  <2>1. mayBe[Target] \subseteq File0
    BY <1>5 DEF TypeOK
  <2>2. QED
    BY <1>5, <1>6, <2>1 DEF EntriesAreSafe, File0
<1>9. ASSUME NEW x \in Publishers, pub[x].temp # NoName
      PROVE  /\ pub[x].temp \in Names \ {n}
             /\ dir'[pub[x].temp] = dir[pub[x].temp]
             /\ dir[pub[x].temp] \in Files \ {f}
  <2>1. pub[x].temp \in Names /\ dir[pub[x].temp] # NoFile
    BY <1>9, OfPublisher DEF HandlesOf, Publisher, Names
  <2>2. QED
    BY <1>5, <1>6, <2>1 DEF TypeOK, File0
<1>10. HandlesFit'
  <2>1. HandlesOf(q)'
    BY <1>2, <1>5, <1>6 DEF HandlesOf, Checking
  <2>2. \A x \in Publishers \ {p} : HandlesOf(pub[x])'
    BY <1>4, <1>9, OfPublisher DEF HandlesOf
  <2>3. QED
    BY <1>4, <2>1, <2>2 DEF HandlesFit
<1>11. Apart'
  <2>1. ASSUME NEW x \in Publishers, pub'[x].file # NoFile
        PROVE  /\ pub'[x].file \notin mayBe'[Target]
               /\ \A r \in Readers : map'[r].file # pub'[x].file
    BY <1>2, <1>4, <1>5, <1>6, <2>1 DEF Apart
  <2>2. ASSUME NEW x \in Publishers, NEW y \in Publishers, x # y,
               pub'[x].temp # NoName
        PROVE  /\ pub'[y].temp # pub'[x].temp
               /\ pub'[y].file # dir'[pub'[x].temp]
    <3>1. CASE x = p
      BY <1>2, <1>4, <1>5, <1>6, <1>9, <2>2, <3>1
    <3>2. CASE x # p /\ y = p
      BY <1>2, <1>4, <1>9, <2>2, <3>2
    <3>3. CASE x # p /\ y # p
      BY <1>4, <1>9, <2>2, <3>3 DEF Apart
    <3>4. QED
      BY <3>1, <3>2, <3>3
  <2>3. QED
    BY <2>1, <2>2 DEF Apart
<1>12. BytesFit'
  <2>1. BytesOf(q)'
    <3>1. data'[f].art = a /\ data'[f].records = 0..(0 - 1)
      BY <1>6 DEF Fresh
    <3>2. QED
      BY <1>2, <3>1 DEF BytesOf, Checking
  <2>2. ASSUME NEW x \in Publishers \ {p}
        PROVE  BytesOf(pub[x])'
    <3>1. HandlesOf(pub[x]) /\ BytesOf(pub[x]) /\ pub[x] \in Publisher
      BY OfPublisher
    <3>2. pub[x].pc \in Writing => pub[x].file \in Files \ {f}
      BY <1>5, <3>1 DEF HandlesOf, Publisher, File0
    <3>3. pub[x].pc \in Checking =>
            /\ dir'[pub[x].temp] = dir[pub[x].temp]
            /\ dir[pub[x].temp] \in Files \ {f}
      BY <1>9, <3>1 DEF HandlesOf
    <3>4. /\ dir'[Target] = dir[Target]
          /\ dir[Target] # NoFile => dir[Target] \in Files \ {f}
      BY <1>5, <1>6 DEF TypeOK, File0
    <3>5. QED
      BY <1>4, <1>6, <3>1, <3>2, <3>3, <3>4
         DEF BytesOf, Complete, Writing, Checking
  <2>3. QED
    BY <1>4, <2>1, <2>2 DEF BytesFit
<1>13. MappedIsStable'
  BY <1>5, <1>6 DEF MappedIsStable, TypeOK, File0
<1>14. AckedIsSynced'
  BY <1>5, <1>6 DEF AckedIsSynced, EntriesAreSafe, TypeOK, File0
<1>15. QED
  BY <1>7, <1>8, <1>10, <1>11, <1>12, <1>13, <1>14

-----------------------------------------------------------------------------
(* Readers, crashes, and every step together.                              *)

\* file_provider_open keeps the invariant: what it maps is what the path
\* names, which no publisher writes to.
LEMMA KeepsProviderOpen ==
  ASSUME IInv, NEW r \in Readers, NEW a \in Artifacts, ProviderOpen(r, a)
  PROVE  IInv'
<1> USE DEF IInv
<1>1. /\ dir[Target] \in Files /\ dir[Target] \in mayBe[Target]
      /\ dir[Target] # NoFile
  BY DEF ProviderOpen, Opens, EntriesAreSafe, TypeOK, Names, File0
<1>2. data[dir[Target]] = Whole(a)
  <2>1. PICK b \in Artifacts : data[dir[Target]] = Whole(b)
    BY <1>1 DEF EntriesAreSafe
  <2>2. Whole(b).art = b
    BY DEF Whole
  <2>3. QED
    BY <2>1, <2>2 DEF ProviderOpen, Opens
<1>3. /\ map'[r] = [file |-> dir[Target], wanted |-> a]
      /\ \A s \in Readers \ {r} : map'[s] = map[s]
      /\ UNCHANGED <<dir, mayBe, data, synced, pub, acked, losses>>
  BY DEF ProviderOpen, fsVars, TypeOK
<1>4. TypeOK'
  BY <1>1 DEF ProviderOpen, fsVars, TypeOK, File0, Artifact0
<1>5. EntriesAreSafe' /\ HandlesFit' /\ BytesFit' /\ AckedIsSynced'
  BY <1>3 DEF EntriesAreSafe, HandlesFit, HandlesOf, BytesFit, BytesOf,
              AckedIsSynced
<1>6. Apart'
  <2>1. \A p \in Publishers : pub[p].file # NoFile => pub[p].file # dir[Target]
    BY <1>1 DEF Apart
  <2>2. \A p \in Publishers : pub[p].file # NoFile =>
          \A s \in Readers : map'[s].file # pub[p].file
    BY <1>3, <2>1 DEF Apart
  <2>3. QED
    BY <1>3, <2>2 DEF Apart
<1>7. MappedIsStable'
  BY <1>2, <1>3 DEF MappedIsStable
<1>8. QED
  BY <1>4, <1>5, <1>6, <1>7

\* file_provider_close keeps the invariant.
LEMMA KeepsProviderClose ==
  ASSUME IInv, NEW r \in Readers, ProviderClose(r)
  PROVE  IInv'
<1> USE DEF IInv
<1>1. /\ map'[r] = Unmapped /\ Unmapped.file = NoFile
      /\ \A s \in Readers \ {r} : map'[s] = map[s]
      /\ UNCHANGED <<dir, mayBe, data, synced, pub, acked, losses>>
  BY DEF ProviderClose, fsVars, TypeOK, Unmapped
<1>2. TypeOK'
  BY DEF ProviderClose, fsVars, TypeOK, Unmapped, File0, Artifact0
<1>3. EntriesAreSafe' /\ HandlesFit' /\ BytesFit' /\ AckedIsSynced'
  BY <1>1 DEF EntriesAreSafe, HandlesFit, HandlesOf, BytesFit, BytesOf,
              AckedIsSynced
<1>4. Apart' /\ MappedIsStable'
  BY <1>1 DEF Apart, MappedIsStable
<1>5. QED
  BY <1>2, <1>3, <1>4

\* A crash keeps the invariant: the path is left with nothing or with the file
\* it named, whose bytes are synced.
LEMMA KeepsCrash ==
  ASSUME IInv, Crash
  PROVE  IInv'
<1> USE DEF IInv
<1>1. PICK d \in [Names -> File0] :
        /\ \A m \in Names : d[m] \in mayBe[m]
        /\ dir' = d /\ mayBe' = [m \in Names |-> {d[m]}]
  BY DEF Crash
<1>2. PICK kept \in SUBSET Files :
        data' = [f \in Files |-> IF synced[f] \/ f \in kept
                                THEN data[f] ELSE Fresh(data[f].art)]
  BY DEF Crash
<1>3. /\ pub' = [p \in Publishers |-> Idle]
      /\ map' = [r \in Readers |-> Unmapped]
      /\ synced' = [f \in Files |-> TRUE] /\ acked' = acked
      /\ losses' \in 0..MaxLosses
  BY CountAssumption DEF Crash, Lose, TypeOK
<1>4. \A f \in Files : data'[f] \in Contents /\ data'[f].art = data[f].art
  <2> SUFFICES ASSUME NEW f \in Files
               PROVE  data'[f] \in Contents /\ data'[f].art = data[f].art
    OBVIOUS
  <2>1. data[f] \in Contents
    BY DEF TypeOK
  <2>2. Fresh(data[f].art) \in Contents /\ Fresh(data[f].art).art = data[f].art
    BY <2>1 DEF Fresh, Contents
  <2>3. data'[f] = data[f] \/ data'[f] = Fresh(data[f].art)
    BY <1>2
  <2>4. QED
    BY <2>1, <2>2, <2>3
<1>5. TypeOK'
  <2>1. data' \in [Files -> Contents]
    BY <1>2, <1>4
  <2>2. Unmapped \in [file : File0, wanted : Artifact0]
    BY DEF Unmapped, File0, Artifact0
  <2>3. mayBe' \in [Names -> SUBSET File0]
    BY <1>1
  <2>4. QED
    BY <1>1, <1>3, <2>1, <2>2, <2>3, IdleType DEF TypeOK
<1>6. Target \in Names
  BY DEF Names
<1>7. /\ d[Target] \in mayBe[Target] /\ mayBe'[Target] = {d[Target]}
      /\ mayBe[Target] \subseteq File0
  BY <1>1, <1>6 DEF TypeOK
<1>8. d[Target] # NoFile =>
        /\ d[Target] \in Files /\ d[Target] = dir[Target]
        /\ synced[d[Target]] /\ \E a \in Artifacts : data[d[Target]] = Whole(a)
  BY <1>7 DEF EntriesAreSafe, File0
<1>9. d[Target] # NoFile => data'[d[Target]] = data[d[Target]]
  BY <1>2, <1>8
<1>10. EntriesAreSafe'
  BY <1>1, <1>3, <1>7, <1>8, <1>9 DEF EntriesAreSafe
<1>11. \A p \in Publishers : pub'[p] = Idle
  BY <1>3
<1>12. HandlesFit' /\ BytesFit'
  <2>1. /\ Idle.pc = "idle" /\ Idle.file = NoFile /\ Idle.temp = NoName
    BY DEF Idle
  <2>2. \A p \in Publishers : HandlesOf(pub[p])' /\ BytesOf(pub[p])'
    BY <1>11, <2>1 DEF HandlesOf, BytesOf, Writing, Checking
  <2>3. QED
    BY <2>2 DEF HandlesFit, BytesFit
<1>13. Apart' /\ MappedIsStable'
  BY <1>3, <1>11 DEF Apart, MappedIsStable, Idle, Unmapped
<1>14. AckedIsSynced'
  BY <1>1, <1>3, <1>7, <1>8, <1>9 DEF AckedIsSynced
<1>15. QED
  BY <1>5, <1>10, <1>12, <1>13, <1>14

\* The invariant holds initially.
LEMMA InitInv == Init => IInv
<1> SUFFICES ASSUME Init PROVE IInv
  OBVIOUS
<1> USE DEF Init
<1>1. TypeOK
  <2>1. /\ Fresh(NoArtifact) \in Contents
        /\ Unmapped \in [file : File0, wanted : Artifact0]
    BY DEF Fresh, Contents, Unmapped, File0, Artifact0
  <2>2. QED
    BY <2>1, IdleType, CountAssumption DEF TypeOK, File0
<1>2. EntriesAreSafe /\ AckedIsSynced
  BY DEF EntriesAreSafe, AckedIsSynced, Names
<1>3. HandlesFit /\ BytesFit
  BY DEF HandlesFit, HandlesOf, BytesFit, BytesOf, Idle, Writing, Checking
<1>4. Apart /\ MappedIsStable
  BY DEF Apart, MappedIsStable, Idle, Unmapped
<1>5. QED
  BY <1>1, <1>2, <1>3, <1>4 DEF IInv

\* Every step keeps the invariant.
LEMMA NextInv == IInv /\ [Next]_vars => IInv'
<1> SUFFICES ASSUME IInv, [Next]_vars PROVE IInv'
  OBVIOUS
<1>1. ASSUME UNCHANGED vars PROVE IInv'
  BY <1>1 DEF vars, fsVars, IInv, TypeOK, EntriesAreSafe, HandlesFit, HandlesOf,
              Apart, BytesFit, BytesOf, MappedIsStable, AckedIsSynced
<1>2. ASSUME NEW p \in Publishers, Start(p) PROVE IInv'
  BY <1>1, <1>2, KeepsMakeTemporary
     DEF Start, Refuse, PublishFile, BuilderCreate
<1>3. ASSUME NEW p \in Publishers, Fill(p) PROVE IInv'
  BY <1>3, KeepsWrite, KeepsSync, KeepsWriteFails, KeepsCleanup, KeepsAppend,
     KeepsSeal, KeepsDetachFails, KeepsDetach, KeepsDestroy DEF Fill
<1>4. ASSUME NEW p \in Publishers, Publish(p) PROVE IInv'
  BY <1>4, KeepsVerify, KeepsLink, KeepsLinkExists, KeepsCompare,
     KeepsPublicationFails, KeepsUnlink, KeepsUnlinkFails, KeepsSyncDirectory,
     KeepsSyncDirectoryFails DEF Publish
<1>5. QED
  BY <1>1, <1>2, <1>3, <1>4, KeepsKill, KeepsProviderOpen, KeepsProviderClose,
     KeepsCrash DEF Next

\* The invariant holds in every reachable state.
LEMMA InvariantHolds == Spec => []IInv
BY InitInv, NextInv, PTL DEF Spec

-----------------------------------------------------------------------------
(* The promises.                                                           *)

\* Every state of publishers, readers and the file system has the types the
\* code relies on: no append passes record_count.
THEOREM TypeCorrect == Spec => []TypeOK
<1>1. IInv => TypeOK
  BY DEF IInv
<1>2. QED
  BY <1>1, InvariantHolds, PTL

\* link, EEXIST and the crash leave nothing but a whole artifact at the path.
THEOREM PublicationIsWhole == Spec => []PublishedIsWhole
<1>1. IInv => PublishedIsWhole
  BY DEF IInv, EntriesAreSafe, PublishedIsWhole, Names
<1>2. QED
  BY <1>1, InvariantHolds, PTL

\* An artifact that publish_file or builder_seal has returned OK for is at the
\* path, whatever others publish and whatever crashes.
THEOREM AcknowledgementIsDurable == Spec => []AcknowledgedStays
<1>1. IInv => AcknowledgedStays
  BY DEF IInv, EntriesAreSafe, AckedIsSynced, AcknowledgedStays, Names
<1>2. QED
  BY <1>1, InvariantHolds, PTL

\* What file_provider_open has mapped never changes under its reader.
THEOREM MappingIsStable == Spec => []MappedIsStable
<1>1. IInv => MappedIsStable
  BY DEF IInv
<1>2. QED
  BY <1>1, InvariantHolds, PTL

\* The temporary_path a publisher holds is its own file's, never another's:
\* what cleanup and builder_destroy unlink is theirs.
THEOREM TemporaryIsOwn == Spec => []OwnTemporary
<1>1. IInv => OwnTemporary
  BY DEF IInv, HandlesFit, HandlesOf, Apart, OwnTemporary
<1>2. QED
  BY <1>1, InvariantHolds, PTL

\* No step but a crash changes the entry of a path that exists.
LEMMA StepKeepsTarget ==
  ASSUME IInv, [Next]_vars, dir[Target] # NoFile
  PROVE  dir'[Target] = dir[Target] \/ losses' # losses
<1>1. ASSUME NEW p \in Publishers, NEW n \in Temporaries, NEW f \in File0,
             SetEntry(n, f)
      PROVE  dir'[Target] = dir[Target]
  BY <1>1, NamesAssumption DEF SetEntry, IInv, TypeOK, Names
<1>2. ASSUME NEW p \in Publishers, pub[p].temp # NoName
      PROVE  pub[p].temp \in Temporaries
  BY <1>2, OfPublisher DEF Publisher
<1>3. ASSUME NEW p \in Publishers, pub[p].temp # NoName, RemoveTemporary(p)
      PROVE  dir'[Target] = dir[Target]
  BY <1>1, <1>2, <1>3, StepNames DEF RemoveTemporary
<1>4. ASSUME NEW p \in Publishers, Start(p)
      PROVE  dir'[Target] = dir[Target]
  BY <1>1, <1>4 DEF Start, Refuse, PublishFile, BuilderCreate, MakeTemporary,
                    vars, fsVars, File0
<1>5. ASSUME NEW p \in Publishers, Fill(p)
      PROVE  dir'[Target] = dir[Target]
  <2>1. CASE Cleanup(p)
    BY <1>3, <2>1, OfPublisher DEF Cleanup, HandlesOf
  <2>2. CASE Destroy(p)
    BY <1>3, <2>2 DEF Destroy
  <2>3. QED
    BY <1>5, <2>1, <2>2 DEF Fill, Write, Sync, WriteFails, Append, CopyRecords,
                            Seal, DetachFails, Detach, fsVars
<1>6. ASSUME NEW p \in Publishers, Publish(p)
      PROVE  dir'[Target] = dir[Target]
  <2>1. CASE Unlink(p)
    BY <1>1, <1>2, <2>1, OfPublisher, StepNames DEF Unlink, HandlesOf
  <2>2. CASE ~Unlink(p)
    BY <1>6, <2>2 DEF Publish, Verify, Link, LinkExists, Compare,
       PublicationFails, UnlinkFails, SyncDirectory, SyncDirectoryFails, fsVars
  <2>3. QED
    BY <2>1, <2>2
<1>7. CASE Crash
  BY <1>7 DEF Crash, Lose, IInv, TypeOK
<1>8. QED
  BY <1>4, <1>5, <1>6, <1>7
     DEF Next, Kill, ProviderOpen, ProviderClose, vars, fsVars

\* No publication, cleanup or destroy replaces or removes what the path names.
THEOREM PathIsNeverReplaced == Spec => NeverReplaced
<1>1. IInv /\ [Next]_vars =>
        [ dir[Target] # NoFile =>
            dir'[Target] = dir[Target] \/ losses' # losses ]_vars
  BY StepKeepsTarget
<1>2. QED
  BY <1>1, InvariantHolds, PTL DEF Spec, NeverReplaced

\* A step that changes no temporary entry and no remembered name leaves no
\* litter.
LEMMA SameNames ==
  ASSUME \A n \in Temporaries : dir'[n] = dir[n],
         \A p \in Publishers : pub'[p].temp = pub[p].temp
  PROVE  Litter' \subseteq Litter
BY DEF Litter

\* Nor does one that removes the name a publisher remembered.
LEMMA RemovedName ==
  ASSUME IInv, NEW p \in Publishers, pub[p].temp # NoName,
         SetEntry(pub[p].temp, NoFile),
         \A x \in Publishers \ {p} : pub'[x] = pub[x]
  PROVE  Litter' \subseteq Litter
<1>1. pub[p].temp \in Temporaries /\ pub[p].temp \in Names
  BY OfPublisher DEF Publisher, Names
<1>2. dir'[pub[p].temp] = NoFile
  BY <1>1 DEF SetEntry, IInv, TypeOK
<1>3. \A n \in Temporaries : n # pub[p].temp => dir'[n] = dir[n]
  BY DEF SetEntry, IInv, TypeOK, Names
<1>4. QED
  BY <1>2, <1>3 DEF Litter

\* Only a kill, a crash or an unlink that fails leaves a name to nobody.
LEMMA StepKeepsLitter ==
  ASSUME IInv, [Next]_vars
  PROVE  Litter' \subseteq Litter \/ losses' # losses
<1> USE DEF IInv
<1>1. ASSUME Lose PROVE losses' # losses
  BY <1>1 DEF Lose, TypeOK
<1>2. ASSUME NEW p \in Publishers, NEW q, pub' = [pub EXCEPT ![p] = q]
      PROVE  pub'[p] = q /\ \A x \in Publishers \ {p} : pub'[x] = pub[x]
  BY <1>2 DEF TypeOK
<1>3. ASSUME NEW p \in Publishers, Start(p) PROVE Litter' \subseteq Litter
  <2>1. CASE UNCHANGED vars
    BY <2>1 DEF Litter, vars, fsVars
  <2>2. ASSUME NEW a \in Artifacts, NEW n \in Temporaries, NEW f \in Files,
               NEW l \in {"write", "build"}, MakeTemporary(p, a, n, f, l)
        PROVE  Litter' \subseteq Litter
    <3>1. pub'[p].temp = n /\ \A x \in Publishers \ {p} : pub'[x] = pub[x]
      BY <2>2 DEF MakeTemporary, TypeOK
    <3>2. \A m \in Temporaries \ {n} : dir'[m] = dir[m]
      BY <2>2 DEF MakeTemporary, SetEntry, TypeOK, Names
    <3>3. pub[p].temp = NoName
      BY <2>2, OfPublisher DEF MakeTemporary, HandlesOf, Idle
    <3>4. QED
      BY <3>1, <3>2, <3>3, NamesAssumption DEF Litter
  <2>3. QED
    BY <1>3, <2>1, <2>2 DEF Start, Refuse, PublishFile, BuilderCreate
<1>4. ASSUME NEW p \in Publishers, pub[p].temp # NoName, RemoveTemporary(p),
             pub' = [pub EXCEPT ![p] = Idle]
      PROVE  Litter' \subseteq Litter \/ losses' # losses
  BY <1>1, <1>2, <1>4, RemovedName DEF RemoveTemporary
<1>5. ASSUME NEW p \in Publishers, pub[p].temp = NoName, NEW q,
             q.temp = NoName, pub' = [pub EXCEPT ![p] = q],
             \A n \in Temporaries : dir'[n] = dir[n]
      PROVE  Litter' \subseteq Litter
  BY <1>2, <1>5, SameNames
<1>6. ASSUME NEW p \in Publishers, Fill(p)
      PROVE  Litter' \subseteq Litter \/ losses' # losses
  <2>1. CASE Cleanup(p)
    BY <1>4, <2>1, OfPublisher DEF Cleanup, HandlesOf
  <2>2. CASE Destroy(p)
    <3>1. CASE pub[p].temp = NoName
      BY <1>5, <2>2, <3>1 DEF Destroy, Idle
    <3>2. CASE pub[p].temp # NoName
      BY <1>4, <2>2, <3>2 DEF Destroy
    <3>3. QED
      BY <3>1, <3>2
  <2>3. CASE ~Cleanup(p) /\ ~Destroy(p)
    <3>1. dir' = dir
      BY <1>6, <2>3 DEF Fill, Write, Sync, WriteFails, Append, CopyRecords,
                        Seal, DetachFails, Detach, fsVars
    <3>2. \A x \in Publishers : pub'[x].temp = pub[x].temp
      <4>1. CASE Write(p) \/ Sync(p) \/ WriteFails(p) \/ Detach(p)
        BY <4>1, SMTT(20) DEF Write, Sync, WriteFails, Detach, Goto, TypeOK, Publisher
      <4>2. ASSUME NEW first \in 0..RecordCount, NEW k \in 0..RecordCount,
                   Append(p, first, k)
            PROVE  \A x \in Publishers : pub'[x].temp = pub[x].temp
        BY <4>2 DEF Append, CopyRecords, TypeOK, Publisher
      <4>3. ASSUME NEW l \in PCs, Seal(p, l) \/ DetachFails(p, l)
            PROVE  \A x \in Publishers : pub'[x].temp = pub[x].temp
        BY <4>3 DEF Seal, DetachFails, Goto, TypeOK, Publisher
      <4>4. QED
        BY <1>6, <2>3, <4>1, <4>2, <4>3 DEF Fill
    <3>3. QED
      BY <3>1, <3>2, SameNames
  <2>4. QED
    BY <2>1, <2>2, <2>3
<1>7. ASSUME NEW p \in Publishers, Publish(p)
      PROVE  Litter' \subseteq Litter \/ losses' # losses
  <2>1. CASE Unlink(p)
    <3>1. \A x \in Publishers \ {p} : pub'[x] = pub[x]
      BY <2>1 DEF Unlink, TypeOK
    <3>2. pub[p].temp # NoName
      BY <2>1, OfPublisher DEF Unlink, HandlesOf
    <3>3. QED
      BY <2>1, <3>1, <3>2, RemovedName DEF Unlink
  <2>2. CASE UnlinkFails(p)
    BY <1>1, <2>2 DEF UnlinkFails
  <2>3. CASE SyncDirectory(p) \/ SyncDirectoryFails(p)
    <3>1. pub[p].temp = NoName /\ pub[p] \in Publisher
      BY <2>3, OfPublisher DEF SyncDirectory, SyncDirectoryFails, HandlesOf
    <3>2. Returned(pub[p]).temp = NoName
      BY <3>1 DEF Returned, Idle, Publisher
    <3>3. dir' = dir /\ pub' = [pub EXCEPT ![p] = Returned(pub[p])]
      BY <2>3 DEF SyncDirectory, SyncDirectoryFails, fsVars
    <3>4. QED
      BY <1>5, <3>1, <3>2, <3>3
  <2>4. CASE Link(p)
    <3>1. \A n \in Temporaries : dir'[n] = dir[n]
      BY <2>4, NamesAssumption DEF Link, SetEntry, TypeOK, Names
    <3>2. \A x \in Publishers : pub'[x].temp = pub[x].temp
      BY <2>4 DEF Link, Goto, TypeOK, Publisher
    <3>3. QED
      BY <3>1, <3>2, SameNames
  <2>5. CASE Verify(p) \/ LinkExists(p) \/ Compare(p) \/ PublicationFails(p)
    <3>1. dir' = dir
      BY <2>5 DEF Verify, LinkExists, Compare, PublicationFails, fsVars
    <3>2. \A x \in Publishers : pub'[x].temp = pub[x].temp
      BY <2>5 DEF Verify, LinkExists, Compare, PublicationFails, Goto, TypeOK,
                  Publisher
    <3>3. QED
      BY <3>1, <3>2, SameNames
  <2>6. QED
    BY <1>7, <2>1, <2>2, <2>3, <2>4, <2>5 DEF Publish
<1>8. CASE \/ UNCHANGED vars
           \/ \E r \in Readers : ProviderClose(r)
                                 \/ \E a \in Artifacts : ProviderOpen(r, a)
  BY <1>8 DEF ProviderClose, ProviderOpen, Litter, vars, fsVars
<1>9. QED
  BY <1>1, <1>3, <1>6, <1>7, <1>8 DEF Next, Kill, Crash

\* A publication that succeeds or fails, and builder_destroy, leave no
\* temporary file that nobody will remove.
THEOREM NoLitterWithoutLoss == Spec => LitterNeedsALoss
<1>1. IInv /\ [Next]_vars => [Litter' \subseteq Litter \/ losses' # losses]_vars
  BY StepKeepsLitter
<1>2. QED
  BY <1>1, InvariantHolds, PTL DEF Spec, LitterNeedsALoss
=============================================================================
