-------------------------- MODULE AotPackageProofs --------------------------
(***************************************************************************)
(* Packages are safe for any number of writers and readers, of processes,  *)
(* of calls and of failures, wherever a writer is stopped: a reader calls  *)
(* the kernel it has validated for, the published package is never mixed,  *)
(* it stays unless its replacement is broken off, and ended calls leave no *)
(* temporary directory.                                                    *)
(***************************************************************************)
EXTENDS AotPackage, FiniteSetTheorems, TLAPS

(* The stages of a writer with its directory, and those after a file.      *)
AfterShared == {"sum object", "sum shared", "manifest", "replace", "rename"}
AfterLoop == {"link", "shared"} \cup AfterShared
AfterObject == {"loop"} \cup AfterLoop
Building == {"object"} \cup AfterObject
Stages == {"idle", "clear", "create", "cleanup", "rethrow"} \cup Building

Values == Images \cup {Torn, Absent}
Manifests == [loop : Images, object : Values, shared : Values]

Contents == {c \in [Files -> Values \cup Manifests] :
               /\ \A f \in Files \ {"manifest"} : c[f] \in Values
               /\ c["manifest"] \in Manifests \cup {Torn, Absent}}

TypeInv ==
  /\ entry \in [Names -> Directories \cup {NoDirectory}]
  /\ content \in [Directories -> Contents]
  /\ pc \in [Writers -> Stages]
  /\ image \in [Writers -> Values]
  /\ sums \in [Writers -> [object : Values, shared : Values]]
  /\ removing \in [Writers -> Directories \cup {NoDirectory}]
  /\ listed \in [Writers -> SUBSET Files]
  /\ handle \in [Writers -> Directories \cup {NoDirectory, Unlinked}]
  /\ calls \in [Writers -> Nat] /\ published \in BOOLEAN /\ abandoned \in SUBSET Processes
  /\ faults \in Nat /\ shortWrites \in Nat

(* What a writer has open belongs to its stage, and names do not share a   *)
(* directory, not even one that is being removed from under the path.      *)
ControlInv ==
  \A w \in Writers :
    /\ removing[w] # NoDirectory => IsRemoving(w)
    /\ handle[w] # NoDirectory => pc[w] \in Files
    /\ pc[w] = "shared" => image[w] # Absent
    /\ pc[w] # "idle" => calls[w] > 0

(* A file that somebody is writing is in its directory, or unlinked.       *)
OpenInv ==
  \A w \in Writers : handle[w] \in Directories => content[handle[w]][pc[w]] # Absent

NamesInv ==
  /\ \A m, n \in Names : m # n /\ entry[m] # NoDirectory => entry[m] # entry[n]
  /\ \A w \in Writers, p \in Processes :
       pc[w] = "replace" /\ removing[w] # NoDirectory => removing[w] # entry[p]

(* A temporary directory that is not abandoned has a writer that will      *)
(* rename it, or remove it with all that is in it.                         *)
Responsible(w) ==
  /\ pc[w] \in Building \cup {"cleanup"}
  /\ pc[w] = "cleanup" /\ removing[w] # NoDirectory =>
       removing[w] = entry[Process[w]] /\ PresentIn(removing[w]) \subseteq listed[w]
OwnerInv ==
  \A p \in Processes \ abandoned : entry[p] # NoDirectory =>
    \E w \in Writers : Process[w] = p /\ Responsible(w)

(* The directory of a writer that shares its process with no other, and    *)
(* what it has made so far.                                                *)
Mine(w) == entry[Temporary(w)]
DirectoryInv(w) ==
  /\ pc[w] \in Building => Mine(w) # NoDirectory
  /\ pc[w] \in {"create", "rethrow"} => Mine(w) = NoDirectory
  /\ pc[w] \in {"clear", "cleanup"} /\ removing[w] # NoDirectory => removing[w] = Mine(w)
  /\ handle[w] # NoDirectory => handle[w] = Mine(w)
ProgressInv(w) ==
  /\ pc[w] \in AfterObject => content[Mine(w)]["object"] = Argument[w]
  /\ pc[w] \in AfterLoop => content[Mine(w)]["loop"] = Argument[w]
  /\ pc[w] = "shared" => image[w] = Argument[w]
  /\ pc[w] \in AfterShared => content[Mine(w)]["shared"] = Argument[w]
  /\ pc[w] \in {"sum shared", "manifest"} => sums[w].object = Argument[w]
  /\ pc[w] = "manifest" => sums[w].shared = Argument[w]
  /\ pc[w] \in {"replace", "rename"} =>
       content[Mine(w)]["manifest"] = ManifestOf(Argument[w], Argument[w], Argument[w])
Undisturbed == OneWriterPerProcess /\ shortWrites = 0
BuildInv ==
  Undisturbed => \A w \in Writers : DirectoryInv(w) /\ ProgressInv(w)
ShownInv == PublishedIsConsistent

(* A package that is not whole is being removed by a writer, and the path  *)
(* is empty only while one is about to rename.                             *)
Whole == \E l \in Images : Lookup(Published) = PackageOf(l)
Removing(w) == pc[w] = "replace" /\ removing[w] # NoDirectory /\ removing[w] = entry[Published]
StayInv ==
  Undisturbed /\ published =>
    \/ Whole
    \/ \E w \in Writers : Removing(w)
    \/ Lookup(Published) = NoFiles /\ \E w \in Writers : pc[w] = "rename"

(* What a reader has checked holds of what it has read, not of the files.  *)
ReadInv ==
  /\ rpc \in [Readers -> {"idle", "loop", "object", "shared", "load", "invoke"}]
  /\ manifest \in [Readers -> Manifests \cup {NoManifest}]
  /\ library \in [Readers -> Images \cup {Absent}]
  /\ \A r \in Readers :
       /\ rpc[r] # "idle" => Target[manifest[r].loop] = Host
       /\ rpc[r] = "invoke" => /\ library[r] \in Images
                               /\ Shape[library[r]] = Shape[manifest[r].loop]
                               /\ Target[library[r]] = Target[manifest[r].loop]

IInv ==
  /\ TypeInv /\ ControlInv /\ OpenInv /\ NamesInv /\ OwnerInv
  /\ BuildInv /\ ShownInv /\ StayInv /\ ReadInv

-----------------------------------------------------------------------------
(* Names, values and directories.                                          *)
LEMMA Basics ==
  ASSUME NEW w \in Writers
  PROVE  /\ Process[w] \in Processes /\ Temporary(w) = Process[w]
         /\ Temporary(w) \in Names /\ Published \in Names /\ Temporary(w) # Published
         /\ Argument[w] \in Images
         /\ Removed(w) \in Names
<1>1. Process[w] \in Processes /\ Temporary(w) = Process[w]
  BY DEF Processes, Temporary
<1>2. Temporary(w) \in Names /\ Published \in Names /\ Temporary(w) # Published
  BY <1>1, NamesAssumption DEF Names
<1>3. Argument[w] \in Images
  BY ArgumentAssumption DEF Images
<1> QED
  BY <1>1, <1>2, <1>3 DEF Removed

LEMMA Markers ==
  /\ Torn # Absent /\ NoDirectory \notin Directories /\ NoDirectory # Unlinked
  /\ Unlinked \notin Directories
  /\ \A l \in Images : l # Torn /\ l # Absent /\ ManifestOf(l, l, l) \in Manifests
  /\ \A m \in Manifests : m # Torn /\ m # Absent
<1>1. Torn # Absent /\ NoDirectory \notin Directories /\ NoDirectory # Unlinked
  BY MarkersAssumption
<1>2. Unlinked \notin Directories
  BY DEF Unlinked, Directories
<1>3. \A l \in Images : l # Torn /\ l # Absent /\ ManifestOf(l, l, l) \in Manifests
  BY MarkersAssumption DEF ManifestOf, Manifests, Values
<1>4. \A m \in Manifests : m # Torn /\ m # Absent
  BY MarkersAssumption DEF Manifests, Values
<1> QED
  BY <1>1, <1>2, <1>3, <1>4

LEMMA ContentsHave ==
  /\ NoFiles \in Contents
  /\ \A l \in Images : PackageOf(l) \in Contents /\ PackageOf(l) # NoFiles
  /\ \A c \in Contents, f \in Files : c[f] \in Values \cup Manifests
<1>1. \A f \in Files : NoFiles[f] = Absent
  BY DEF NoFiles
<1>2. NoFiles \in [Files -> Values \cup Manifests]
  BY DEF NoFiles, Values
<1>3. NoFiles \in Contents
  BY <1>1, <1>2 DEF Contents, Values, Files
<1>4. ASSUME NEW l \in Images PROVE PackageOf(l) \in Contents /\ PackageOf(l) # NoFiles
  <2>1. ManifestOf(l, l, l) \in Manifests
    BY Markers
  <2>2. PackageOf(l) \in [Files -> Values \cup Manifests]
    BY <2>1 DEF PackageOf, Files, Values
  <2>3. PackageOf(l)["object"] = l /\ PackageOf(l)["loop"] = l /\ PackageOf(l)["shared"] = l
        /\ PackageOf(l)["manifest"] = ManifestOf(l, l, l)
    BY DEF PackageOf
  <2>4. PackageOf(l) \in Contents
    BY <2>1, <2>2, <2>3 DEF Contents, Files, Values
  <2>5. PackageOf(l)["object"] # NoFiles["object"]
    BY <1>1, <2>3, Markers DEF Files
  <2> QED
    BY <2>4, <2>5
<1> QED
  BY <1>3, <1>4 DEF Contents

LEMMA LookupType ==
  ASSUME TypeInv, NEW n \in Names
  PROVE  Lookup(n) \in Contents
<1>1. entry[n] # NoDirectory => content[entry[n]] \in Contents
  BY DEF TypeInv
<1> QED
  BY <1>1, ContentsHave DEF Lookup

(* One file of one directory changes. *)
LEMMA ContentUpdate ==
  ASSUME content \in [Directories -> Contents], NEW d \in Directories, NEW f \in Files, NEW value,
         content' = [content EXCEPT ![d][f] = value],
         f # "manifest" => value \in Values,
         f = "manifest" => value \in Manifests \cup {Torn, Absent}
  PROVE  /\ content' \in [Directories -> Contents]
         /\ content'[d][f] = value
         /\ \A g \in Files : g # f => content'[d][g] = content[d][g]
         /\ \A e \in Directories : e # d => content'[e] = content[e]
<1>1. PICK c \in Contents : c = content[d]
  OBVIOUS
<1>2. PICK new : new = [c EXCEPT ![f] = value]
  OBVIOUS
<1>3. content' = [content EXCEPT ![d] = new]
  BY <1>1, <1>2
<1>4. value \in Values \cup Manifests
  BY DEF Values
<1>5. c \in [Files -> Values \cup Manifests]
  BY DEF Contents
<1>6. new \in [Files -> Values \cup Manifests] /\ new[f] = value
      /\ \A g \in Files : g # f => new[g] = c[g]
  BY <1>2, <1>4, <1>5
<1>7. \A g \in Files \ {"manifest"} : new[g] \in Values
  BY <1>6 DEF Contents
<1>8. new["manifest"] \in Manifests \cup {Torn, Absent}
  <2>1. "manifest" \in Files
    BY DEF Files
  <2> QED
    BY <1>6, <2>1 DEF Contents
<1>9. new \in Contents
  BY <1>6, <1>7, <1>8 DEF Contents
<1> QED
  BY <1>1, <1>3, <1>6, <1>9

(* There is a directory for create_directories: each name and each other   *)
(* writer use no more than one.                                            *)
LEMMA FreshExists ==
  ASSUME TypeInv, ControlInv, NEW w \in Writers, pc[w] = "create", entry[Temporary(w)] = NoDirectory
  PROVE  FreshDirectory \in Directories /\ FreshDirectory \notin InUse
<1> DEFINE Others == Writers \ {w}
           Slot(v) == IF removing[v] # NoDirectory THEN removing[v] ELSE handle[v]
           named == [v \in Others |-> entry[Process[v]]]
           opened == [v \in Others |-> Slot(v)]
           Named == {entry[Process[v]] : v \in Others}
           Opened == {Slot(v) : v \in Others}
           All == (Named \cup Opened) \cup {entry[Published]}
<1>1. \A d \in Directories : d \in InUse => d \in All
  <2>1. SUFFICES ASSUME NEW d \in Directories, d \in InUse PROVE d \in All
    OBVIOUS
  <2>2. CASE \E n \in Names : d = entry[n]
    <3>1. PICK n \in Names : d = entry[n]
      BY <2>2
    <3>2. n # Temporary(w)
      BY <3>1, Markers
    <3>3. CASE n = Published
      BY <3>1, <3>3
    <3>4. CASE n # Published
      <4>1. PICK v \in Writers : n = Process[v]
        BY <3>4 DEF Names, Processes
      <4>2. v # w
        BY <3>2, <4>1 DEF Temporary
      <4> QED
        BY <3>1, <4>1, <4>2
    <3> QED
      BY <3>3, <3>4
  <2>3. ASSUME NEW v \in Writers, d = removing[v] \/ d = handle[v] PROVE d \in Opened
    <3>1. d # NoDirectory
      BY Markers
    <3>2. removing[w] = NoDirectory /\ handle[w] = NoDirectory
      BY DEF ControlInv, IsRemoving, Files
    <3>3. v # w
      BY <2>3, <3>1, <3>2
    <3>4. removing[v] # NoDirectory => handle[v] = NoDirectory
      BY DEF ControlInv, IsRemoving, Files
    <3>5. d = Slot(v)
      BY <2>3, <3>1, <3>4
    <3> QED
      BY <3>3, <3>5
  <2> QED
    BY <2>1, <2>2, <2>3 DEF InUse
<1>2. PICK n \in Nat : n = Cardinality(Writers)
  BY WritersAssumption, FS_CardinalityType
<1>3. IsFiniteSet(Others) /\ Cardinality(Others) = n - 1
  BY <1>2, WritersAssumption, FS_RemoveElement
<1>4. IsFiniteSet(Named) /\ Cardinality(Named) <= n - 1
  <2>1. named \in Surjection(Others, Named)
    BY DEF Surjection
  <2>2. IsFiniteSet(Named) /\ Cardinality(Named) <= Cardinality(Others)
    <3> HIDE DEF named, Named, Others
    <3> QED
      BY <1>3, <2>1, FS_Surjection
  <2> QED
    BY <1>3, <2>2
<1>5. IsFiniteSet(Opened) /\ Cardinality(Opened) <= n - 1
  <2>1. opened \in Surjection(Others, Opened)
    <3> HIDE DEF Slot
    <3> QED
      BY DEF Surjection
  <2>2. IsFiniteSet(Opened) /\ Cardinality(Opened) <= Cardinality(Others)
    <3> HIDE DEF opened, Opened, Others
    <3> QED
      BY <1>3, <2>1, FS_Surjection
  <2> QED
    BY <1>3, <2>2
<1> HIDE DEF named, opened, Named, Opened, Others, Slot
<1>6. IsFiniteSet(Named \cup Opened) /\ Cardinality(Named \cup Opened) <= (n - 1) + (n - 1)
  <2>1. /\ IsFiniteSet(Named \cup Opened)
        /\ Cardinality(Named \cup Opened) =
             Cardinality(Named) + Cardinality(Opened) - Cardinality(Named \cap Opened)
    BY <1>4, <1>5, FS_Union
  <2>2. IsFiniteSet(Named \cap Opened)
    BY <1>4, FS_Intersection
  <2>3. Cardinality(Named) \in Nat /\ Cardinality(Opened) \in Nat /\ Cardinality(Named \cap Opened) \in Nat
    BY <1>4, <1>5, <2>2, FS_CardinalityType
  <2> QED
    BY <1>4, <1>5, <2>1, <2>3
<1>7. IsFiniteSet(All) /\ Cardinality(All) <= 2 * n - 1
  <2>1. Cardinality(Named \cup Opened) \in Nat
    BY <1>6, FS_CardinalityType
  <2>2. /\ IsFiniteSet((Named \cup Opened) \cup {entry[Published]})
        /\ Cardinality((Named \cup Opened) \cup {entry[Published]}) =
             IF entry[Published] \in Named \cup Opened THEN Cardinality(Named \cup Opened)
             ELSE Cardinality(Named \cup Opened) + 1
    BY <1>6, FS_AddElement
  <2> QED
    BY <1>6, <2>1, <2>2
<1>8. IsFiniteSet(Directories) /\ Cardinality(Directories) = 1 + 2 * n
  <2>1. 1 \in Int /\ 1 + 2 * n \in Int
    OBVIOUS
  <2>2. IsFiniteSet(1 .. 1 + 2 * n) /\ Cardinality(1 .. 1 + 2 * n) = 1 + 2 * n
    BY <2>1, FS_Interval
  <2> QED
    BY <1>2, <2>2 DEF Directories
<1>9. \E d \in Directories : d \notin InUse
  <2>1. SUFFICES ASSUME \A d \in Directories : d \in InUse PROVE FALSE
    OBVIOUS
  <2> HIDE DEF All
  <2>2. Directories \in SUBSET All
    BY <1>1, <2>1
  <2>3. Cardinality(Directories) <= Cardinality(All)
    BY <1>7, <2>2, FS_Subset
  <2>4. Cardinality(All) \in Nat
    BY <1>7, FS_CardinalityType
  <2> QED
    BY <1>7, <1>8, <2>3, <2>4
<1> QED
  BY <1>9 DEF FreshDirectory

-----------------------------------------------------------------------------
(* A step of a writer, and what it leaves to the other writers.            *)
LEMMA EndCallType ==
  ASSUME TypeInv, NEW w \in Writers, EndCall(w)
  PROVE  /\ pc' \in [Writers -> Stages] /\ image' \in [Writers -> Values]
         /\ sums' \in [Writers -> [object : Values, shared : Values]]
         /\ removing' \in [Writers -> Directories \cup {NoDirectory}]
         /\ listed' \in [Writers -> SUBSET Files]
         /\ handle' \in [Writers -> Directories \cup {NoDirectory, Unlinked}]
         /\ pc'[w] = "idle" /\ removing'[w] = NoDirectory /\ handle'[w] = NoDirectory
         /\ \A v \in Writers : v # w => /\ pc'[v] = pc[v] /\ image'[v] = image[v] /\ sums'[v] = sums[v]
                                        /\ removing'[v] = removing[v] /\ listed'[v] = listed[v]
                                        /\ handle'[v] = handle[v]
<1>1. "idle" \in Stages /\ Absent \in Values /\ NoSums \in [object : Values, shared : Values]
  BY DEF Stages, Values, NoSums
<1> QED
  BY <1>1 DEF EndCall, TypeInv

LEMMA ThrowType ==
  ASSUME TypeInv, NEW w \in Writers, Throw(w)
  PROVE  /\ pc' \in [Writers -> Stages] /\ image' = image /\ sums' = sums
         /\ removing' \in [Writers -> Directories \cup {NoDirectory}]
         /\ listed' \in [Writers -> SUBSET Files]
         /\ handle' \in [Writers -> Directories \cup {NoDirectory, Unlinked}]
         /\ pc'[w] = "cleanup" /\ removing'[w] = NoDirectory /\ handle'[w] = NoDirectory
         /\ published' = (published /\ ~ Replacing(w)) /\ published' \in BOOLEAN
         /\ \A v \in Writers : v # w => /\ pc'[v] = pc[v] /\ removing'[v] = removing[v]
                                        /\ listed'[v] = listed[v] /\ handle'[v] = handle[v]
<1>1. "cleanup" \in Stages
  BY DEF Stages
<1> QED
  BY <1>1 DEF Throw, TypeInv

LEMMA RemovalThrowsType ==
  ASSUME TypeInv, NEW w \in Writers, RemovalThrows(w)
  PROVE  /\ pc' \in [Writers -> Stages] /\ image' \in [Writers -> Values]
         /\ sums' \in [Writers -> [object : Values, shared : Values]]
         /\ removing' \in [Writers -> Directories \cup {NoDirectory}]
         /\ listed' \in [Writers -> SUBSET Files]
         /\ handle' \in [Writers -> Directories \cup {NoDirectory, Unlinked}]
         /\ pc'[w] = (IF pc[w] = "replace" THEN "cleanup" ELSE "idle")
         /\ removing'[w] = NoDirectory /\ handle'[w] = NoDirectory
         /\ published' = (published /\ ~ Replacing(w)) \/ (pc[w] # "replace" /\ published' = published)
         /\ published' \in BOOLEAN
         /\ \A v \in Writers : v # w => /\ pc'[v] = pc[v] /\ image'[v] = image[v] /\ sums'[v] = sums[v]
                                        /\ removing'[v] = removing[v] /\ listed'[v] = listed[v]
                                        /\ handle'[v] = handle[v]
<1>1. CASE pc[w] = "replace"
  <2>1. Throw(w)
    BY <1>1 DEF RemovalThrows
  <2> QED
    BY <1>1, <2>1, ThrowType DEF TypeInv
<1>2. CASE pc[w] # "replace"
  <2>1. EndCall(w) /\ published' = published
    BY <1>2 DEF RemovalThrows
  <2> QED
    BY <1>2, <2>1, EndCallType DEF TypeInv
<1> QED
  BY <1>1, <1>2

LEMMA MoveType ==
  ASSUME TypeInv, NEW w \in Writers, NEW from, NEW to \in Stages, WriterMoves(w, from, to)
  PROVE  /\ pc' \in [Writers -> Stages] /\ pc'[w] = to /\ pc[w] = from
         /\ \A v \in Writers : v # w => pc'[v] = pc[v]
BY DEF WriterMoves, TypeInv

LEMMA NextStage ==
  ASSUME NEW w \in Writers
  PROVE  /\ IsRemoving(w) => AfterRemoval(w) \in Stages
         /\ pc[w] \in Files => AfterWrite[pc[w]] \in Stages
         /\ \A s \in {"loop", "link", "sum object", "replace", "shared", "object", "manifest",
                      "sum shared", "clear", "create", "cleanup", "rethrow", "idle", "rename"} :
              s \in Stages
<1>1. IsRemoving(w) => AfterRemoval(w) \in Stages
  BY DEF IsRemoving, AfterRemoval, Stages, Building, AfterObject, AfterLoop, AfterShared
<1>2. pc[w] \in Files => AfterWrite[pc[w]] \in Stages
  <2>1. /\ AfterWrite["object"] = "loop" /\ AfterWrite["loop"] = "link"
        /\ AfterWrite["shared"] = "sum object" /\ AfterWrite["manifest"] = "replace"
    BY DEF AfterWrite
  <2>2. {"loop", "link", "sum object", "replace"} \subseteq Stages
    BY DEF Stages, Building, AfterObject, AfterLoop, AfterShared
  <2> QED
    BY <2>1, <2>2 DEF Files
<1> QED
  BY <1>1, <1>2 DEF Stages, Building, AfterObject, AfterLoop, AfterShared

LEMMA FilesType ==
  ASSUME TypeInv, NEW n \in Names
  PROVE  \A f \in Files \ {"manifest"} : Lookup(n)[f] \in Values
BY LookupType DEF Contents

LEMMA CreateType ==
  ASSUME TypeInv, ControlInv, NEW w \in Writers, Create(w)
  PROVE  TypeInv'
<1>1. TypeInv
  OBVIOUS
<1>2. CASE Compile(w)
  <2>1. pc' \in [Writers -> Stages]
    BY <1>2, NextStage, MoveType DEF Compile
  <2>2. calls' \in [Writers -> Nat]
    <3>1. calls[w] + 1 \in Nat /\ calls \in [Writers -> Nat]
      BY DEF TypeInv
    <3>2. calls' = [calls EXCEPT ![w] = calls[w] + 1]
      BY <1>2 DEF Compile
    <3> QED
      BY <3>1, <3>2
  <2> QED
    BY <1>2, <2>1, <2>2 DEF Compile, TypeInv, fileVars
<1>3. CASE RemoveNothing(w)
  <2>1. pc' \in [Writers -> Stages]
    BY <1>3, NextStage, MoveType DEF RemoveNothing
  <2>2. abandoned' \in SUBSET Processes
    BY <1>3 DEF RemoveNothing, StillAbandoned, TypeInv
  <2> QED
    BY <1>3, <2>1, <2>2 DEF RemoveNothing, TypeInv, fileVars
<1>4. CASE OpenForRemoval(w)
  <2>1. entry[Removed(w)] \in Directories \cup {NoDirectory}
    BY Basics DEF TypeInv
  <2>2. removing' \in [Writers -> Directories \cup {NoDirectory}]
    BY <1>4, <2>1 DEF OpenForRemoval, TypeInv
  <2>3. listed' \in [Writers -> SUBSET Files]
    BY <1>4 DEF OpenForRemoval, PresentIn, TypeInv
  <2> QED
    BY <1>4, <2>2, <2>3 DEF OpenForRemoval, TypeInv, fileVars, history
<1>5. ASSUME NEW f \in Files, RemoveEntry(w, f) PROVE TypeInv'
  <2>1. removing[w] \in Directories
    BY <1>5 DEF RemoveEntry, TypeInv
  <2>2. Absent \in Values
    BY DEF Values
  <2>3. content' \in [Directories -> Contents]
    <3>1. content' = [content EXCEPT ![removing[w]][f] = Absent]
      BY <1>5 DEF RemoveEntry
    <3> QED
      BY <2>1, <2>2, <3>1, ContentUpdate DEF TypeInv
  <2>4. handle' \in [Writers -> Directories \cup {NoDirectory, Unlinked}]
    BY <1>5 DEF RemoveEntry, TypeInv
  <2>5. listed' \in [Writers -> SUBSET Files]
    BY <1>5 DEF RemoveEntry, TypeInv
  <2> QED
    BY <1>5, <2>3, <2>4, <2>5 DEF RemoveEntry, TypeInv, history
<1>6. CASE RemoveDirectory(w)
  <2>1. CASE Lookup(Removed(w)) = NoFiles
    <3>1. /\ entry' = [entry EXCEPT ![Removed(w)] = NoDirectory]
          /\ WriterMoves(w, pc[w], AfterRemoval(w))
          /\ removing' = [removing EXCEPT ![w] = NoDirectory]
          /\ listed' = [listed EXCEPT ![w] = {}] /\ abandoned' = StillAbandoned(w)
          /\ UNCHANGED <<image, sums, handle, published>> /\ UNCHANGED content
      BY <1>6, <2>1 DEF RemoveDirectory
    <3>2. IsRemoving(w)
      BY <1>6 DEF RemoveDirectory, ControlInv
    <3>3. pc' \in [Writers -> Stages]
      BY <3>1, <3>2, NextStage, MoveType
    <3>4. entry' \in [Names -> Directories \cup {NoDirectory}]
      BY <3>1 DEF TypeInv
    <3>5. removing' \in [Writers -> Directories \cup {NoDirectory}]
          /\ listed' \in [Writers -> SUBSET Files] /\ abandoned' \in SUBSET Processes
      BY <3>1 DEF TypeInv, StillAbandoned
    <3> QED
      BY <1>6, <3>1, <3>3, <3>4, <3>5 DEF RemoveDirectory, TypeInv
  <2>2. CASE Lookup(Removed(w)) # NoFiles
    <3>1. RemovalThrows(w) /\ UNCHANGED <<entry, content, abandoned, calls, faults, shortWrites>>
      BY <1>6, <2>2 DEF RemoveDirectory
    <3> QED
      BY <3>1, RemovalThrowsType DEF TypeInv
  <2> QED
    BY <2>1, <2>2
<1>17. CASE RemovalFails(w)
  <2>1. RemovalThrows(w) /\ UNCHANGED <<entry, content, calls, shortWrites>> /\ faults' = faults + 1
    BY <1>17 DEF RemovalFails, Fault, fileVars
  <2>2. abandoned' \in SUBSET Processes
    BY <1>17 DEF RemovalFails, TypeInv, Processes
  <2> QED
    BY <2>1, <2>2, RemovalThrowsType DEF TypeInv
<1>18. CASE CreateFails(w)
  BY <1>18, EndCallType DEF CreateFails, TypeInv, fileVars, history
<1>7. CASE CreateTemporary(w)
  <2>1. pc' \in [Writers -> Stages] /\ pc[w] = "create"
    BY <1>7, NextStage, MoveType DEF CreateTemporary
  <2>2. entry[Temporary(w)] = NoDirectory => FreshDirectory \in Directories
    BY <2>1, FreshExists
  <2>3. entry' \in [Names -> Directories \cup {NoDirectory}] /\ content' \in [Directories -> Contents]
    <3>1. CASE entry[Temporary(w)] # NoDirectory
      BY <1>7, <3>1 DEF CreateTemporary, TypeInv
    <3>2. CASE entry[Temporary(w)] = NoDirectory
      <4>1. entry' = [entry EXCEPT ![Temporary(w)] = FreshDirectory]
            /\ content' = [content EXCEPT ![FreshDirectory] = NoFiles]
        BY <1>7, <3>2 DEF CreateTemporary
      <4> QED
        BY <2>2, <3>2, <4>1, ContentsHave DEF TypeInv
    <3> QED
      BY <3>1, <3>2
  <2> QED
    BY <1>7, <2>1, <2>3 DEF CreateTemporary, TypeInv, history
<1>8. CASE OpenFile(w)
  <2>1. PICK d \in Directories : d = entry[Temporary(w)]
    BY <1>8, Basics DEF OpenFile, TypeInv
  <2>2. content' \in [Directories -> Contents]
    <3>1. content' = [content EXCEPT ![d][pc[w]] = Torn] /\ pc[w] \in Files
      BY <1>8, <2>1 DEF OpenFile
    <3>2. Torn \in Values
      BY DEF Values
    <3> QED
      BY <3>1, <3>2, ContentUpdate DEF TypeInv
  <2>3. handle' \in [Writers -> Directories \cup {NoDirectory, Unlinked}]
    BY <1>8, <2>1 DEF OpenFile, TypeInv
  <2> QED
    BY <1>8, <2>2, <2>3 DEF OpenFile, TypeInv, history
<1>9. CASE WriteFile(w)
  <2>1. pc' \in [Writers -> Stages] /\ pc[w] \in Files
    BY <1>9, NextStage, MoveType DEF WriteFile
  <2>2. content' \in [Directories -> Contents]
    <3>1. CASE handle[w] = Unlinked
      BY <1>9, <3>1 DEF WriteFile, TypeInv
    <3>2. CASE handle[w] # Unlinked
      <4>1. handle[w] \in Directories
        BY <1>9, <3>2 DEF WriteFile, TypeInv
      <4>2. content' = [content EXCEPT ![handle[w]][pc[w]] = Data(w)]
        BY <1>9, <3>2 DEF WriteFile
      <4>3. pc[w] # "manifest" => Data(w) \in Values
        BY <2>1, Basics DEF Data, TypeInv, Files, Values
      <4>4. pc[w] = "manifest" => Data(w) \in Manifests \cup {Torn, Absent}
        <5>1. sums[w] \in [object : Values, shared : Values] /\ Argument[w] \in Images
          BY Basics DEF TypeInv
        <5>2. ManifestOf(Argument[w], sums[w].object, sums[w].shared) \in Manifests
          BY <5>1 DEF ManifestOf, Manifests
        <5> QED
          BY <5>2 DEF Data
      <4> QED
        BY <2>1, <4>1, <4>2, <4>3, <4>4, ContentUpdate DEF TypeInv
    <3> QED
      BY <3>1, <3>2
  <2>3. handle' \in [Writers -> Directories \cup {NoDirectory, Unlinked}]
    BY <1>9 DEF WriteFile, TypeInv
  <2> QED
    BY <1>9, <2>1, <2>2, <2>3 DEF WriteFile, TypeInv, history
<1>10. CASE WriteShort(w)
  <2>1. pc' \in [Writers -> Stages]
    BY <1>10, NextStage, MoveType DEF WriteShort
  <2>2. handle' \in [Writers -> Directories \cup {NoDirectory, Unlinked}]
        /\ shortWrites' \in Nat /\ faults' \in Nat
    BY <1>10 DEF WriteShort, Fault, TypeInv
  <2> QED
    BY <1>10, <2>1, <2>2 DEF WriteShort, TypeInv, fileVars
<1>11. CASE Link(w)
  <2>1. pc' \in [Writers -> Stages]
    BY <1>11, NextStage, MoveType DEF Link
  <2>2. Lookup(Temporary(w)).object \in Values
    BY Basics, FilesType DEF Files
  <2>3. image' \in [Writers -> Values]
    BY <1>11, <2>2 DEF Link, TypeInv
  <2> QED
    BY <1>11, <2>1, <2>3 DEF Link, TypeInv, fileVars, history
<1>12. ASSUME NEW f \in {"object", "shared"}, NEW from, NEW to \in {"sum shared", "manifest"},
              Checksum(w, f, from, to)
       PROVE  TypeInv'
  <2>1. pc' \in [Writers -> Stages]
    BY <1>12, NextStage, MoveType DEF Checksum
  <2>2. Lookup(Temporary(w))[f] \in Values
    BY Basics, FilesType DEF Files
  <2>3. sums' \in [Writers -> [object : Values, shared : Values]]
    <3>1. PICK x \in Values : x = Lookup(Temporary(w))[f]
      BY <2>2
    <3>2. sums' = [sums EXCEPT ![w][f] = x]
      BY <1>12, <3>1 DEF Checksum
    <3> QED
      BY <3>2 DEF TypeInv
  <2> QED
    BY <1>12, <2>1, <2>3 DEF Checksum, TypeInv, fileVars, history
<1>13. CASE Fail(w)
  BY <1>13, ThrowType DEF Fail, TypeInv, fileVars
<1>14. CASE Rename(w)
  <2>1. entry[Temporary(w)] \in Directories \cup {NoDirectory}
    BY Basics DEF TypeInv
  <2>2. entry' \in [Names -> Directories \cup {NoDirectory}]
    BY <1>14, <2>1 DEF Rename, TypeInv
  <2>3. published' \in BOOLEAN
    BY <1>14 DEF Rename
  <2> QED
    BY <1>14, <2>2, <2>3, EndCallType DEF Rename, TypeInv
<1>15. CASE RenameFails(w)
  <2>1. faults' \in Nat
    BY <1>15 DEF RenameFails, Fault, TypeInv
  <2> QED
    BY <1>15, <2>1, ThrowType DEF RenameFails, TypeInv, fileVars
<1>16. CASE Rethrow(w)
  BY <1>16, EndCallType DEF Rethrow, TypeInv, fileVars, history
<1> QED
  BY <1>2, <1>3, <1>4, <1>5, <1>6, <1>7, <1>8, <1>9, <1>10, <1>11, <1>12, <1>13, <1>14, <1>15, <1>16,
     <1>17, <1>18 DEF Create

-----------------------------------------------------------------------------
(* What a step of a writer leaves alone.                                   *)
KeepsWriters(w) ==
  \A v \in Writers : v # w =>
    /\ pc'[v] = pc[v] /\ image'[v] = image[v] /\ sums'[v] = sums[v]
    /\ removing'[v] = removing[v] /\ listed'[v] = listed[v]
    /\ handle'[v] # handle[v] =>
         removing[w] # NoDirectory /\ handle[v] = removing[w] /\ handle'[v] = Unlinked
KeepsHistory(w) ==
  /\ \A v \in Writers : calls'[v] >= calls[v]
  /\ calls'[w] > 0
  /\ shortWrites' >= shortWrites
  /\ UNCHANGED readerVars
KeepsContents(w) ==
  \A d \in Directories : content'[d] # content[d] =>
    \/ d = removing[w] /\ \A f \in Files : content'[d][f] \in {content[d][f], Absent}
    \/ d = handle[w] /\ \A f \in Files : f # pc[w] => content'[d][f] = content[d][f]
    \/ d = Mine(w) /\ pc[w] \in Files
    \/ d = FreshDirectory /\ pc[w] = "create" /\ Mine(w) = NoDirectory
KeepsEntries(w) ==
  \A n \in Names : entry'[n] # entry[n] =>
    \/ /\ n = Removed(w) /\ IsRemoving(w) /\ entry'[n] = NoDirectory /\ Lookup(n) = NoFiles
       /\ removing[w] # NoDirectory
    \/ /\ n = Temporary(w) /\ pc[w] = "create" /\ entry[n] = NoDirectory
       /\ entry'[n] = FreshDirectory
    \/ /\ pc[w] = "rename" /\ n = Temporary(w) /\ entry'[n] = NoDirectory
    \/ /\ pc[w] = "rename" /\ n = Published /\ entry'[n] = Mine(w) /\ Mine(w) # NoDirectory
       /\ entry'[Temporary(w)] = NoDirectory

LEMMA HistoryFrame ==
  ASSUME TypeInv, ControlInv, NEW w \in Writers, pc[w] # "idle",
         UNCHANGED <<calls, shortWrites>>, UNCHANGED readerVars
  PROVE  KeepsHistory(w)
<1>1. calls \in [Writers -> Nat] /\ shortWrites \in Nat /\ calls[w] > 0
  BY DEF TypeInv, ControlInv
<1> QED
  BY <1>1 DEF KeepsHistory

LEMMA CreateKeeps ==
  ASSUME TypeInv, ControlInv, NEW w \in Writers, Create(w)
  PROVE  KeepsWriters(w) /\ KeepsHistory(w) /\ KeepsContents(w) /\ KeepsEntries(w)
<1>1. calls \in [Writers -> Nat] /\ shortWrites \in Nat /\ (pc[w] # "idle" => calls[w] > 0)
  BY DEF TypeInv, ControlInv
<1>2. CASE Compile(w)
  <2>1. pc[w] = "idle" /\ KeepsWriters(w)
    BY <1>2, NextStage, MoveType DEF Compile, KeepsWriters
  <2>2. calls' = [calls EXCEPT ![w] = calls[w] + 1] /\ UNCHANGED <<readerVars, shortWrites>>
    BY <1>2 DEF Compile
  <2>3. \A v \in Writers : calls'[v] >= calls[v] /\ calls'[w] > 0
    BY <1>1, <2>2
  <2>4. UNCHANGED <<entry, content>>
    BY <1>2 DEF Compile, fileVars
  <2> QED
    BY <1>1, <2>1, <2>2, <2>3, <2>4 DEF KeepsHistory, KeepsContents, KeepsEntries
<1>3. CASE RemoveNothing(w)
  <2>1. KeepsWriters(w)
    BY <1>3, NextStage, MoveType DEF RemoveNothing, KeepsWriters
  <2>2. pc[w] # "idle"
    BY <1>3 DEF RemoveNothing, IsRemoving
  <2> QED
    BY <1>3, <2>1, <2>2, HistoryFrame
       DEF RemoveNothing, KeepsContents, KeepsEntries, fileVars
<1>4. CASE OpenForRemoval(w)
  <2>1. KeepsWriters(w)
    BY <1>4 DEF OpenForRemoval, KeepsWriters, TypeInv
  <2>2. pc[w] # "idle"
    BY <1>4 DEF OpenForRemoval, IsRemoving
  <2> QED
    BY <1>1, <1>4, <2>1, <2>2
       DEF OpenForRemoval, KeepsHistory, KeepsContents, KeepsEntries, fileVars, history
<1>5. ASSUME NEW f \in Files, RemoveEntry(w, f)
      PROVE  KeepsWriters(w) /\ KeepsHistory(w) /\ KeepsContents(w) /\ KeepsEntries(w)
  <2>1. pc[w] # "idle"
    BY <1>5 DEF RemoveEntry, ControlInv, IsRemoving
  <2>2. KeepsWriters(w)
    BY <1>5 DEF RemoveEntry, KeepsWriters
  <2>3. KeepsContents(w)
    <3>1. content' = [content EXCEPT ![removing[w]][f] = Absent] /\ removing[w] \in Directories
      BY <1>5 DEF RemoveEntry, TypeInv
    <3>2. \A d \in Directories : d # removing[w] => content'[d] = content[d]
      BY <3>1 DEF TypeInv
    <3>3. \A g \in Files : content'[removing[w]][g] \in {content[removing[w]][g], Absent}
      <4>1. content \in [Directories -> Contents] /\ Absent \in Values
        BY DEF TypeInv, Values
      <4> QED
        BY <3>1, <4>1, ContentUpdate
    <3> QED
      BY <3>2, <3>3 DEF KeepsContents
  <2> QED
    BY <1>1, <1>5, <2>1, <2>2, <2>3 DEF RemoveEntry, KeepsHistory, KeepsEntries, history
<1>6. CASE RemoveDirectory(w)
  <2>1. IsRemoving(w) /\ pc[w] # "idle" /\ UNCHANGED <<content, calls, shortWrites>> /\ UNCHANGED readerVars
    BY <1>6 DEF RemoveDirectory, ControlInv, IsRemoving
  <2>2. KeepsHistory(w) /\ KeepsContents(w)
    BY <2>1, HistoryFrame DEF KeepsContents
  <2>3. CASE Lookup(Removed(w)) = NoFiles
    <3>1. /\ entry' = [entry EXCEPT ![Removed(w)] = NoDirectory]
          /\ WriterMoves(w, pc[w], AfterRemoval(w))
          /\ removing' = [removing EXCEPT ![w] = NoDirectory]
          /\ listed' = [listed EXCEPT ![w] = {}]
          /\ UNCHANGED <<image, sums, handle>>
      BY <1>6, <2>3 DEF RemoveDirectory
    <3>2. KeepsWriters(w)
      BY <2>1, <3>1, NextStage, MoveType, ZenonT(40) DEF KeepsWriters, TypeInv
    <3>3. KeepsEntries(w)
      BY <1>6, <2>1, <2>3, <3>1 DEF KeepsEntries, TypeInv, RemoveDirectory
    <3> QED
      BY <2>2, <3>2, <3>3
  <2>4. CASE Lookup(Removed(w)) # NoFiles
    <3>1. UNCHANGED entry /\ RemovalThrows(w)
      BY <1>6, <2>4 DEF RemoveDirectory
    <3>2. KeepsWriters(w)
      BY <3>1, RemovalThrowsType DEF KeepsWriters
    <3> QED
      BY <2>2, <3>1, <3>2 DEF KeepsEntries
  <2> QED
    BY <2>3, <2>4
<1>17. CASE RemovalFails(w)
  <2>1. RemovalThrows(w) /\ UNCHANGED <<entry, content, calls, shortWrites>> /\ UNCHANGED readerVars
        /\ pc[w] # "idle"
    BY <1>17 DEF RemovalFails, IsRemoving, fileVars
  <2>2. KeepsWriters(w)
    BY <2>1, RemovalThrowsType DEF KeepsWriters
  <2> QED
    BY <2>1, <2>2, HistoryFrame DEF KeepsContents, KeepsEntries
<1>18. CASE CreateFails(w)
  <2>1. UNCHANGED <<entry, content, calls, shortWrites>> /\ UNCHANGED readerVars /\ pc[w] # "idle"
    BY <1>18 DEF CreateFails, fileVars, history
  <2>2. KeepsWriters(w)
    BY <1>18, EndCallType DEF CreateFails, KeepsWriters
  <2> QED
    BY <2>1, <2>2, HistoryFrame DEF KeepsContents, KeepsEntries
<1>7. CASE CreateTemporary(w)
  <2>1. pc[w] = "create" /\ KeepsWriters(w)
    BY <1>7, NextStage, MoveType DEF CreateTemporary, KeepsWriters
  <2>2. UNCHANGED history /\ UNCHANGED readerVars
    BY <1>7 DEF CreateTemporary
  <2>3. KeepsHistory(w)
    BY <1>1, <2>1, <2>2 DEF KeepsHistory, history
  <2>4. CASE entry[Temporary(w)] # NoDirectory
    <3>1. UNCHANGED <<entry, content>>
      BY <1>7, <2>4 DEF CreateTemporary
    <3> QED
      BY <2>1, <2>3, <3>1 DEF KeepsContents, KeepsEntries
  <2>5. CASE entry[Temporary(w)] = NoDirectory
    <3>1. entry' = [entry EXCEPT ![Temporary(w)] = FreshDirectory]
          /\ content' = [content EXCEPT ![FreshDirectory] = NoFiles]
      BY <1>7, <2>5 DEF CreateTemporary
    <3>2. KeepsContents(w)
      BY <2>1, <2>5, <3>1 DEF KeepsContents, TypeInv, Mine
    <3>3. KeepsEntries(w)
      BY <2>1, <2>5, <3>1 DEF KeepsEntries, TypeInv
    <3> QED
      BY <2>1, <2>3, <3>2, <3>3
  <2> QED
    BY <2>4, <2>5
<1>8. CASE OpenFile(w)
  <2>1. pc[w] \in Files /\ pc[w] # "idle"
    BY <1>8 DEF OpenFile, Files
  <2>2. KeepsWriters(w)
    BY <1>8 DEF OpenFile, KeepsWriters, TypeInv
  <2>3. KeepsContents(w)
    <3>1. content' = [content EXCEPT ![Mine(w)][pc[w]] = Torn]
      BY <1>8 DEF OpenFile, Mine
    <3> QED
      BY <2>1, <3>1 DEF KeepsContents, TypeInv
  <2> QED
    BY <1>1, <1>8, <2>1, <2>2, <2>3 DEF OpenFile, KeepsHistory, KeepsEntries, history
<1>9. CASE WriteFile(w)
  <2>1. pc[w] \in Files /\ pc[w] # "idle"
    BY <1>9 DEF WriteFile, Files
  <2>2. KeepsWriters(w)
    BY <1>9, <2>1, NextStage, MoveType, ZenonT(40) DEF WriteFile, KeepsWriters, TypeInv
  <2>3. KeepsContents(w)
    <3>1. content' = content \/ content' = [content EXCEPT ![handle[w]][pc[w]] = Data(w)]
      BY <1>9 DEF WriteFile
    <3>2. \A d \in Directories : d # handle[w] => content'[d] = content[d]
      BY <3>1 DEF TypeInv
    <3>3. handle[w] \in Directories =>
            \A f \in Files : f # pc[w] => content'[handle[w]][f] = content[handle[w]][f]
      <4>1. content \in [Directories -> Contents]
        BY DEF TypeInv
      <4>2. \A d \in Directories : content[d] \in [Files -> Values \cup Manifests]
        BY <4>1 DEF Contents
      <4> QED
        BY <3>1, <4>1, <4>2
    <3> QED
      BY <3>2, <3>3 DEF KeepsContents
  <2> QED
    BY <1>1, <1>9, <2>1, <2>2, <2>3 DEF WriteFile, KeepsHistory, KeepsEntries, history
<1>10. CASE WriteShort(w)
  <2>1. pc[w] # "idle" /\ pc[w] \in Files
    BY <1>10 DEF WriteShort, Files
  <2>2. KeepsWriters(w)
    BY <1>10, <2>1, NextStage, MoveType, ZenonT(40) DEF WriteShort, KeepsWriters, TypeInv
  <2>3. shortWrites' >= shortWrites
    BY <1>1, <1>10 DEF WriteShort
  <2>4. UNCHANGED <<entry, content>> /\ UNCHANGED calls /\ UNCHANGED readerVars
    BY <1>10 DEF WriteShort, fileVars
  <2>5. KeepsHistory(w)
    BY <1>1, <2>1, <2>3, <2>4 DEF KeepsHistory
  <2> QED
    BY <2>2, <2>4, <2>5 DEF KeepsContents, KeepsEntries
<1>11. CASE Link(w)
  <2>1. KeepsWriters(w) /\ pc[w] # "idle"
    BY <1>11, NextStage, MoveType DEF Link, KeepsWriters, TypeInv
  <2>2. UNCHANGED <<entry, content>> /\ UNCHANGED history /\ UNCHANGED readerVars
    BY <1>11 DEF Link, fileVars
  <2>3. KeepsHistory(w)
    BY <2>1, <2>2, HistoryFrame DEF history
  <2> QED
    BY <2>1, <2>2, <2>3 DEF KeepsContents, KeepsEntries
<1>12. ASSUME NEW f \in {"object", "shared"}, NEW from \in {"sum object", "sum shared"},
              NEW to \in {"sum shared", "manifest"}, Checksum(w, f, from, to)
       PROVE  KeepsWriters(w) /\ KeepsHistory(w) /\ KeepsContents(w) /\ KeepsEntries(w)
  <2>1. pc[w] # "idle" /\ \A v \in Writers : v # w => pc'[v] = pc[v]
    BY <1>12, NextStage, MoveType, ZenonT(40) DEF Checksum
  <2>2. \A v \in Writers : v # w => sums'[v] = sums[v]
    BY <1>12 DEF Checksum, TypeInv
  <2>3. KeepsWriters(w)
    BY <1>12, <2>1, <2>2 DEF Checksum, KeepsWriters
  <2>4. UNCHANGED <<entry, content>> /\ UNCHANGED history /\ UNCHANGED readerVars
    BY <1>12 DEF Checksum, fileVars
  <2>5. KeepsHistory(w)
    BY <2>1, <2>4, HistoryFrame DEF history
  <2> QED
    BY <2>3, <2>4, <2>5 DEF KeepsContents, KeepsEntries
<1>13. CASE Fail(w)
  <2>1. KeepsWriters(w)
    BY <1>13, ThrowType DEF Fail, KeepsWriters
  <2>2. pc[w] # "idle"
    BY <1>13 DEF Fail, Files
  <2>3. UNCHANGED <<entry, content, calls, shortWrites>> /\ UNCHANGED readerVars
    BY <1>13 DEF Fail, fileVars
  <2> QED
    BY <2>1, <2>2, <2>3, HistoryFrame DEF KeepsContents, KeepsEntries
<1>14. CASE Rename(w)
  <2>1. KeepsWriters(w) /\ pc'[w] = "idle"
    BY <1>14, EndCallType DEF Rename, KeepsWriters
  <2>2. pc[w] = "rename" /\ Mine(w) # NoDirectory
        /\ entry' = [entry EXCEPT ![Published] = Mine(w), ![Temporary(w)] = NoDirectory]
    BY <1>14 DEF Rename, RenameIsPossible, Mine
  <2>3. KeepsEntries(w)
    <3>1. entry'[Temporary(w)] = NoDirectory /\ entry'[Published] = Mine(w)
      BY <2>2, Basics DEF TypeInv
    <3>2. \A n \in Names : n # Temporary(w) /\ n # Published => entry'[n] = entry[n]
      BY <2>2 DEF TypeInv
    <3> QED
      BY <2>2, <3>1, <3>2 DEF KeepsEntries
  <2> QED
    BY <1>1, <1>14, <2>1, <2>3 DEF Rename, KeepsHistory, KeepsContents
<1>15. CASE RenameFails(w)
  <2>1. KeepsWriters(w)
    BY <1>15, ThrowType DEF RenameFails, KeepsWriters
  <2>2. UNCHANGED <<entry, content, calls, shortWrites>> /\ UNCHANGED readerVars /\ pc[w] # "idle"
    BY <1>15 DEF RenameFails, fileVars
  <2> QED
    BY <2>1, <2>2, HistoryFrame DEF KeepsContents, KeepsEntries
<1>16. CASE Rethrow(w)
  <2>1. KeepsWriters(w) /\ pc'[w] = "idle"
    BY <1>16, EndCallType DEF Rethrow, KeepsWriters
  <2> QED
    BY <1>1, <1>16, <2>1 DEF Rethrow, KeepsHistory, KeepsContents, KeepsEntries, fileVars, history
<1> QED
  BY <1>2, <1>3, <1>4, <1>5, <1>6, <1>7, <1>8, <1>9, <1>10, <1>11, <1>12, <1>13, <1>14, <1>15, <1>16,
     <1>17, <1>18 DEF Create

-----------------------------------------------------------------------------
(* What a step does to the writer itself, whoever else is at work.         *)
StaysResponsible(w) ==
  Responsible(w) /\ Mine(w) # NoDirectory /\ entry'[Process[w]] = Mine(w)
    /\ Process[w] \notin abandoned' =>
      /\ pc'[w] \in Building \cup {"cleanup"}
      /\ pc'[w] = "cleanup" /\ removing'[w] # NoDirectory =>
           removing'[w] = Mine(w) /\ PresentIn(removing[w])' \subseteq listed'[w]
OwnStage(w) ==
  /\ removing'[w] # NoDirectory => pc'[w] \in {"clear", "replace", "cleanup"}
  /\ handle'[w] # NoDirectory => pc'[w] \in Files
  /\ pc'[w] = "shared" => image'[w] # Absent
  /\ pc'[w] = "replace" /\ removing'[w] # NoDirectory =>
       pc[w] = "replace" /\ removing'[w] \in {removing[w], entry[Published]} /\ UNCHANGED entry
  /\ pc[w] = "create" => pc'[w] = "object" \/ UNCHANGED entry
  /\ StaysResponsible(w)

(* A process is no longer to be blamed only when its directory is gone.    *)
LEMMA AbandonedStep ==
  ASSUME TypeInv, ControlInv, NEW w \in Writers, Create(w), NEW p \in abandoned, p \notin abandoned'
  PROVE  entry'[p] = NoDirectory
<1>1. Process[w] \in Names /\ Temporary(w) = Process[w]
  BY Basics
<1>2. CASE RemoveNothing(w)
  <2>1. pc[w] # "replace" /\ p = Process[w] /\ UNCHANGED entry /\ entry[Removed(w)] = NoDirectory
    BY <1>2 DEF RemoveNothing, StillAbandoned, fileVars
  <2> QED
    BY <1>1, <2>1 DEF Removed
<1>3. CASE RemoveDirectory(w)
  <2>1. Lookup(Removed(w)) = NoFiles /\ abandoned' = StillAbandoned(w)
        /\ entry' = [entry EXCEPT ![Removed(w)] = NoDirectory]
    BY <1>3 DEF RemoveDirectory
  <2>2. pc[w] # "replace" /\ p = Process[w]
    BY <2>1 DEF StillAbandoned
  <2> QED
    BY <1>1, <2>1, <2>2 DEF Removed, TypeInv
<1>4. CASE RemovalFails(w)
  BY <1>4 DEF RemovalFails
<1>5. CASE ~ (RemoveNothing(w) \/ RemoveDirectory(w) \/ RemovalFails(w))
  BY <1>5 DEF Create, Compile, OpenForRemoval, RemoveEntry, CreateTemporary, CreateFails, OpenFile,
              WriteFile, WriteShort, Link, Checksum, Fail, Rename, RenameFails, Rethrow, history
<1> QED
  BY <1>2, <1>3, <1>4, <1>5

LEMMA OwnStageStep ==
  ASSUME TypeInv, ControlInv, NEW w \in Writers, Create(w)
  PROVE  OwnStage(w)
<1>1. /\ removing[w] # NoDirectory => pc[w] \in {"clear", "replace", "cleanup"}
      /\ handle[w] # NoDirectory => pc[w] \in Files
      /\ pc[w] = "shared" => image[w] # Absent
  BY DEF ControlInv, IsRemoving
<1>2. Mine(w) = entry[Process[w]] /\ Temporary(w) = Process[w] /\ Process[w] \in Names
      /\ Process[w] # Published
  BY Basics DEF Mine
<1>3. CASE Compile(w)
  <2>1. pc[w] = "idle" /\ pc'[w] = "clear" /\ UNCHANGED <<removing, handle>>
    BY <1>3, NextStage, MoveType DEF Compile
  <2> QED
    BY <1>1, <2>1 DEF OwnStage, StaysResponsible, Responsible, Building, AfterObject, AfterLoop, AfterShared, Files
<1>4. CASE RemoveNothing(w)
  <2>1. pc'[w] = AfterRemoval(w) /\ UNCHANGED <<removing, handle>> /\ UNCHANGED entry
        /\ removing[w] = NoDirectory /\ IsRemoving(w) /\ entry[Removed(w)] = NoDirectory
    BY <1>4, NextStage, MoveType DEF RemoveNothing, fileVars
  <2>2. handle[w] = NoDirectory
    BY <1>1, <2>1 DEF IsRemoving, Files
  <2>3. CASE pc[w] = "clear"
    BY <2>1, <2>2, <2>3
       DEF OwnStage, StaysResponsible, Responsible, AfterRemoval, Building, AfterObject, AfterLoop, AfterShared
  <2>4. CASE pc[w] = "replace"
    BY <2>1, <2>2, <2>4
       DEF OwnStage, StaysResponsible, Responsible, AfterRemoval, Building, AfterObject, AfterLoop, AfterShared
  <2>5. CASE pc[w] = "cleanup"
    <3>1. Mine(w) = NoDirectory
      BY <1>2, <2>1, <2>5 DEF Removed
    <3> QED
      BY <2>1, <2>2, <2>5, <3>1 DEF OwnStage, StaysResponsible, AfterRemoval
  <2> QED
    BY <2>1, <2>3, <2>4, <2>5 DEF IsRemoving
<1>5. CASE OpenForRemoval(w)
  <2>1. UNCHANGED <<pc, handle, image, entry, content>> /\ IsRemoving(w)
        /\ removing'[w] = entry[Removed(w)] /\ listed'[w] = PresentIn(entry[Removed(w)])
    BY <1>5 DEF OpenForRemoval, TypeInv, fileVars
  <2>2. pc[w] = "replace" => removing'[w] = entry[Published]
    BY <2>1 DEF Removed
  <2>3. pc[w] = "cleanup" => removing'[w] = Mine(w)
    BY <1>2, <2>1 DEF Removed
  <2>4. PresentIn(removing[w])' \subseteq listed'[w]
    BY <2>1 DEF PresentIn
  <2>5. StaysResponsible(w)
    BY <2>1, <2>3, <2>4 DEF StaysResponsible, Responsible
  <2> QED
    BY <1>1, <2>1, <2>2, <2>5 DEF OwnStage, IsRemoving, Files
<1>6. ASSUME NEW f \in Files, RemoveEntry(w, f) PROVE OwnStage(w)
  <2>1. UNCHANGED <<pc, image, removing, entry>> /\ removing[w] # NoDirectory
    BY <1>6 DEF RemoveEntry
  <2>2. handle[w] = NoDirectory
    BY <1>1, <2>1 DEF Files
  <2>3. handle'[w] = NoDirectory
    BY <1>6, <2>1, <2>2 DEF RemoveEntry
  <2>4. PresentIn(removing[w]) \subseteq listed[w] => PresentIn(removing[w])' \subseteq listed'[w]
    <3>1. removing[w] \in Directories
      BY <2>1 DEF TypeInv
    <3>2. content' = [content EXCEPT ![removing[w]][f] = Absent]
      BY <1>6 DEF RemoveEntry
    <3>4. listed'[w] = listed[w] \ {f}
      BY <1>6 DEF RemoveEntry, TypeInv
    <3>3. /\ content'[removing[w]][f] = Absent
          /\ \A g \in Files : g # f => content'[removing[w]][g] = content[removing[w]][g]
      <4>1. content'[removing[w]] = [content[removing[w]] EXCEPT ![f] = Absent]
        BY <3>1, <3>2 DEF TypeInv
      <4>2. content[removing[w]] \in [Files -> Values \cup Manifests]
        BY <3>1 DEF TypeInv, Contents
      <4> QED
        BY <4>1, <4>2
    <3> QED
      BY <2>1, <3>3, <3>4 DEF PresentIn
  <2>5. StaysResponsible(w)
    BY <1>2, <2>1, <2>4 DEF StaysResponsible, Responsible
  <2> QED
    BY <1>1, <2>1, <2>3, <2>5 DEF OwnStage
<1>7. CASE RemoveDirectory(w)
  <2>1. removing[w] # NoDirectory /\ pc[w] \in {"clear", "replace", "cleanup"}
    BY <1>1, <1>7 DEF RemoveDirectory
  <2>2. handle[w] = NoDirectory
    BY <1>1, <2>1 DEF Files
  <2>3. CASE Lookup(Removed(w)) = NoFiles
    <3>1. /\ entry' = [entry EXCEPT ![Removed(w)] = NoDirectory]
          /\ WriterMoves(w, pc[w], AfterRemoval(w))
          /\ removing' = [removing EXCEPT ![w] = NoDirectory]
          /\ UNCHANGED handle
      BY <1>7, <2>3 DEF RemoveDirectory
    <3>2. pc'[w] = AfterRemoval(w) /\ removing'[w] = NoDirectory /\ handle'[w] = NoDirectory
      BY <2>1, <2>2, <3>1, NextStage, MoveType DEF IsRemoving, TypeInv
    <3>3. CASE pc[w] = "clear"
      BY <3>2, <3>3
         DEF OwnStage, StaysResponsible, Responsible, AfterRemoval, Building, AfterObject, AfterLoop, AfterShared
    <3>4. CASE pc[w] = "replace"
      BY <3>2, <3>4
         DEF OwnStage, StaysResponsible, Responsible, AfterRemoval, Building, AfterObject, AfterLoop, AfterShared
    <3>5. CASE pc[w] = "cleanup"
      <4>1. entry'[Process[w]] = NoDirectory
        BY <1>2, <3>1, <3>5 DEF Removed, TypeInv
      <4> QED
        BY <3>2, <3>5, <4>1 DEF OwnStage, StaysResponsible, AfterRemoval
    <3> QED
      BY <2>1, <3>3, <3>4, <3>5
  <2>4. CASE Lookup(Removed(w)) # NoFiles
    <3>1. RemovalThrows(w)
      BY <1>7, <2>4 DEF RemoveDirectory
    <3>2. CASE pc[w] = "replace"
      BY <3>1, <3>2, RemovalThrowsType DEF OwnStage, StaysResponsible
    <3>3. CASE pc[w] # "replace"
      <4>1. pc'[w] = "idle" /\ removing'[w] = NoDirectory /\ handle'[w] = NoDirectory
        BY <3>1, <3>3, RemovalThrowsType
      <4>2. ~ (Responsible(w) /\ Mine(w) # NoDirectory)
        <5>1. SUFFICES ASSUME Responsible(w), Mine(w) # NoDirectory PROVE FALSE
          OBVIOUS
        <5>2. pc[w] = "cleanup"
          BY <2>1, <3>3, <5>1 DEF Responsible, Building, AfterObject, AfterLoop, AfterShared
        <5>3. removing[w] = Mine(w) /\ PresentIn(removing[w]) = {}
          BY <1>2, <1>7, <2>1, <5>1, <5>2 DEF Responsible, RemoveDirectory
        <5>4. Lookup(Removed(w)) = content[Mine(w)]
          BY <1>2, <5>1, <5>2 DEF Removed, Lookup
        <5>5. Mine(w) \in Directories
          BY <1>2, <5>1 DEF TypeInv
        <5>6. \A f \in Files : content[Mine(w)][f] = Absent
          BY <5>3 DEF PresentIn
        <5>7. content[Mine(w)] \in [Files -> Values \cup Manifests]
          BY <5>5 DEF TypeInv, Contents
        <5>8. content[Mine(w)] = NoFiles
          BY <5>6, <5>7 DEF NoFiles
        <5> QED
          BY <2>4, <5>4, <5>8
      <4> QED
        BY <2>1, <4>1, <4>2 DEF OwnStage, StaysResponsible
    <3> QED
      BY <3>2, <3>3
  <2> QED
    BY <2>3, <2>4
<1>17. CASE RemovalFails(w)
  <2>1. IsRemoving(w) /\ RemovalThrows(w) /\ UNCHANGED entry
        /\ abandoned' = IF pc[w] = "cleanup" THEN abandoned \cup {Process[w]} ELSE abandoned
    BY <1>17 DEF RemovalFails, fileVars
  <2>2. removing'[w] = NoDirectory /\ handle'[w] = NoDirectory
        /\ pc'[w] = (IF pc[w] = "replace" THEN "cleanup" ELSE "idle")
    BY <2>1, RemovalThrowsType
  <2>3. StaysResponsible(w)
    BY <2>1, <2>2 DEF StaysResponsible, Responsible, IsRemoving, Building, AfterObject, AfterLoop, AfterShared
  <2> QED
    BY <2>1, <2>2, <2>3 DEF OwnStage, IsRemoving
<1>18. CASE CreateFails(w)
  <2>1. pc[w] = "create" /\ EndCall(w) /\ UNCHANGED entry
    BY <1>18 DEF CreateFails, fileVars
  <2>2. pc'[w] = "idle" /\ removing'[w] = NoDirectory /\ handle'[w] = NoDirectory
    BY <2>1, EndCallType
  <2> QED
    BY <2>1, <2>2 DEF OwnStage, StaysResponsible, Responsible, Building, AfterObject, AfterLoop, AfterShared
<1>8. CASE CreateTemporary(w)
  <2>1. pc[w] = "create" /\ pc'[w] = "object" /\ UNCHANGED <<removing, handle>>
    BY <1>8, NextStage, MoveType DEF CreateTemporary
  <2> QED
    BY <1>1, <2>1 DEF OwnStage, StaysResponsible, Building, Files
<1>9. CASE OpenFile(w)
  <2>1. pc[w] \in Files /\ UNCHANGED <<pc, image, removing>>
    BY <1>9 DEF OpenFile
  <2>2. removing[w] = NoDirectory
    BY <1>1, <2>1 DEF Files
  <2> QED
    BY <1>1, <2>1, <2>2 DEF OwnStage, StaysResponsible, Responsible, Files
<1>10. ASSUME WriteFile(w) \/ WriteShort(w) PROVE OwnStage(w)
  <2>1. pc[w] \in Files /\ pc'[w] = AfterWrite[pc[w]] /\ UNCHANGED removing
        /\ handle'[w] = NoDirectory
    BY <1>10, NextStage, MoveType DEF WriteFile, WriteShort, TypeInv
  <2>2. removing[w] = NoDirectory
    BY <1>1, <2>1 DEF Files
  <2>3. pc'[w] \in Building /\ pc'[w] # "cleanup" /\ pc'[w] # "shared" /\ pc[w] # "create"
    <3>1. /\ AfterWrite["object"] = "loop" /\ AfterWrite["loop"] = "link"
          /\ AfterWrite["shared"] = "sum object" /\ AfterWrite["manifest"] = "replace"
      BY DEF AfterWrite
    <3>2. pc'[w] \in {"loop", "link", "sum object", "replace"}
      BY <2>1, <3>1 DEF Files
    <3> QED
      BY <2>1, <3>2 DEF Building, AfterObject, AfterLoop, AfterShared, Files
  <2> QED
    BY <2>1, <2>2, <2>3 DEF OwnStage, StaysResponsible
<1>11. CASE Link(w)
  <2>1. pc[w] = "link" /\ pc'[w] = "shared" /\ UNCHANGED <<removing, handle>>
    BY <1>11, NextStage, MoveType DEF Link
  <2>2. image'[w] # Absent
    BY <1>11 DEF Link, TypeInv
  <2> QED
    BY <1>1, <2>1, <2>2 DEF OwnStage, StaysResponsible, Building, AfterObject, AfterLoop, AfterShared, Files
<1>12. ASSUME NEW f \in {"object", "shared"}, NEW from \in {"sum object", "sum shared"},
              NEW to \in {"sum shared", "manifest"}, Checksum(w, f, from, to)
       PROVE  OwnStage(w)
  <2>1. pc[w] = from /\ pc'[w] = to /\ UNCHANGED <<removing, handle>>
    BY <1>12, NextStage, MoveType DEF Checksum
  <2>2. removing[w] = NoDirectory /\ handle[w] = NoDirectory
    BY <1>1, <2>1 DEF Files
  <2>3. removing'[w] = NoDirectory /\ handle'[w] = NoDirectory
    BY <2>1, <2>2
  <2>4. pc'[w] \in Building /\ pc'[w] # "cleanup" /\ pc'[w] # "shared" /\ pc[w] # "create"
    BY <2>1 DEF Building, AfterObject, AfterLoop, AfterShared
  <2> QED
    BY <2>3, <2>4 DEF OwnStage, StaysResponsible
<1>13. CASE Fail(w)
  <2>1. pc[w] # "create"
    BY <1>13 DEF Fail, Files
  <2> QED
    BY <1>13, <2>1, ThrowType DEF OwnStage, StaysResponsible, Fail
<1>14. CASE Rename(w)
  <2>1. pc[w] = "rename" /\ entry'[Process[w]] = NoDirectory
    BY <1>2, <1>14 DEF Rename, TypeInv
  <2>2. pc'[w] = "idle" /\ removing'[w] = NoDirectory /\ handle'[w] = NoDirectory
    BY <1>14, EndCallType DEF Rename
  <2> QED
    BY <2>1, <2>2 DEF OwnStage, StaysResponsible
<1>15. CASE RenameFails(w)
  BY <1>15, ThrowType DEF OwnStage, StaysResponsible, RenameFails
<1>16. CASE Rethrow(w)
  <2>1. pc[w] = "rethrow"
    BY <1>16 DEF Rethrow
  <2>2. pc'[w] = "idle" /\ removing'[w] = NoDirectory /\ handle'[w] = NoDirectory
    BY <1>16, EndCallType DEF Rethrow
  <2> QED
    BY <2>1, <2>2 DEF OwnStage, StaysResponsible, Responsible, Building, AfterObject, AfterLoop, AfterShared
<1> QED
  BY <1>3, <1>4, <1>5, <1>6, <1>7, <1>8, <1>9, <1>10, <1>11, <1>12, <1>13, <1>14, <1>15, <1>16,
     <1>17, <1>18 DEF Create

(* The invariants that hold whoever shares a process. *)
LEMMA CreateControl ==
  ASSUME TypeInv, ControlInv, NEW w \in Writers, Create(w)
  PROVE  ControlInv'
<1>1. KeepsWriters(w) /\ KeepsHistory(w) /\ OwnStage(w)
  BY CreateKeeps, OwnStageStep
<1>2. SUFFICES ASSUME NEW v \in Writers
               PROVE  /\ removing'[v] # NoDirectory => pc'[v] \in {"clear", "replace", "cleanup"}
                      /\ handle'[v] # NoDirectory => pc'[v] \in Files
                      /\ pc'[v] = "shared" => image'[v] # Absent
                      /\ pc'[v] # "idle" => calls'[v] > 0
  BY DEF ControlInv, IsRemoving
<1>3. CASE v = w
  BY <1>1, <1>3 DEF OwnStage, KeepsHistory
<1>4. CASE v # w
  <2>1. pc'[v] = pc[v] /\ removing'[v] = removing[v] /\ image'[v] = image[v]
    BY <1>1, <1>4 DEF KeepsWriters
  <2>2. handle'[v] # NoDirectory => handle[v] # NoDirectory
    BY <1>1, <1>4 DEF KeepsWriters
  <2>3. calls'[v] >= calls[v] /\ calls[v] \in Nat /\ calls'[v] \in Nat
    BY <1>1, CreateType DEF KeepsHistory, TypeInv
  <2> QED
    BY <2>1, <2>2, <2>3 DEF ControlInv, IsRemoving
<1> QED
  BY <1>3, <1>4

LEMMA CreateNames ==
  ASSUME TypeInv, ControlInv, NamesInv, NEW w \in Writers, Create(w)
  PROVE  NamesInv'
<1>1. KeepsWriters(w) /\ KeepsEntries(w) /\ OwnStage(w)
  BY CreateKeeps, OwnStageStep
<1>2. pc[w] = "create" /\ entry[Temporary(w)] = NoDirectory =>
        FreshDirectory \in Directories /\ FreshDirectory \notin InUse
  BY FreshExists
<1>3. Temporary(w) \in Names /\ Published \in Names /\ Temporary(w) # Published
      /\ Mine(w) = entry[Temporary(w)] /\ Processes \subseteq Names /\ Published \notin Processes
  BY Basics, NamesAssumption DEF Mine, Names
<1>4. ASSUME NEW m \in Names, NEW n \in Names, m # n, entry'[m] # NoDirectory
      PROVE  entry'[m] # entry'[n]
  <2>1. CASE pc[w] = "create" /\ entry[Temporary(w)] = NoDirectory
    <3>1. \A x \in Names : x # Temporary(w) => entry'[x] = entry[x]
      BY <1>1, <2>1 DEF KeepsEntries, IsRemoving
    <3>2. \A x \in Names : entry[x] # FreshDirectory
      BY <1>2, <2>1 DEF InUse
    <3>3. entry'[Temporary(w)] \in {NoDirectory, FreshDirectory}
      BY <1>1, <1>3, <2>1 DEF KeepsEntries, IsRemoving
    <3>4. CASE m = Temporary(w)
      BY <1>4, <3>1, <3>2, <3>3, <3>4
    <3>5. CASE n = Temporary(w)
      BY <1>4, <3>1, <3>2, <3>3, <3>5
    <3>6. CASE m # Temporary(w) /\ n # Temporary(w)
      BY <1>4, <3>1, <3>6 DEF NamesInv
    <3> QED
      BY <3>4, <3>5, <3>6
  <2>2. CASE pc[w] = "rename" /\ entry'[Published] # entry[Published]
    <3>1. entry'[Published] = Mine(w) /\ Mine(w) # NoDirectory /\ entry'[Temporary(w)] = NoDirectory
      BY <1>1, <1>3, <2>2 DEF KeepsEntries, IsRemoving
    <3>2. \A x \in Names : x # Temporary(w) /\ x # Published => entry'[x] = entry[x]
      BY <1>1, <2>2 DEF KeepsEntries, IsRemoving
    <3>3. \A x \in Names : x # Temporary(w) => entry[x] # Mine(w)
      BY <1>3, <3>1 DEF NamesInv
    <3>4. CASE m = Published
      BY <1>4, <3>1, <3>2, <3>3, <3>4
    <3>5. CASE n = Published
      BY <1>4, <3>1, <3>2, <3>3, <3>5
    <3>6. CASE m # Published /\ n # Published
      BY <1>4, <3>1, <3>2, <3>6 DEF NamesInv
    <3> QED
      BY <3>4, <3>5, <3>6
  <2>3. CASE /\ ~ (pc[w] = "create" /\ entry[Temporary(w)] = NoDirectory)
             /\ ~ (pc[w] = "rename" /\ entry'[Published] # entry[Published])
    <3>1. \A x \in Names : entry'[x] = entry[x] \/ entry'[x] = NoDirectory
      BY <1>1, <2>3 DEF KeepsEntries, IsRemoving
    <3> QED
      BY <1>4, <3>1 DEF NamesInv
  <2> QED
    BY <2>1, <2>2, <2>3
<1>5. ASSUME NEW v \in Writers, NEW p \in Processes, pc'[v] = "replace", removing'[v] # NoDirectory
      PROVE  removing'[v] # entry'[p]
  <2>1. CASE v = w
    <3>1. pc[w] = "replace" /\ removing'[w] \in {removing[w], entry[Published]} /\ UNCHANGED entry
      BY <1>1, <1>5, <2>1 DEF OwnStage
    <3>2. entry[Published] # NoDirectory => entry[Published] # entry[p]
      BY <1>3 DEF NamesInv
    <3> QED
      BY <1>5, <2>1, <3>1, <3>2 DEF NamesInv
  <2>2. CASE v # w
    <3>1. pc[v] = "replace" /\ removing'[v] = removing[v] /\ removing[v] # NoDirectory
      BY <1>1, <1>5, <2>2 DEF KeepsWriters
    <3>2. removing[v] # entry[p]
      BY <3>1 DEF NamesInv
    <3>3. entry'[p] = entry[p] \/ entry'[p] = NoDirectory \/ entry'[p] = FreshDirectory
      BY <1>1, <1>3 DEF KeepsEntries
    <3>4. entry'[p] = FreshDirectory /\ entry'[p] # entry[p] /\ entry'[p] # NoDirectory => removing[v] # FreshDirectory
      <4>1. SUFFICES ASSUME entry'[p] # entry[p], entry'[p] # NoDirectory
                     PROVE  removing[v] # FreshDirectory
        OBVIOUS
      <4>2. pc[w] = "create" /\ entry[Temporary(w)] = NoDirectory
        BY <1>1, <1>3, <4>1 DEF KeepsEntries
      <4> QED
        BY <1>2, <4>2 DEF InUse
    <3> QED
      BY <3>1, <3>2, <3>3, <3>4
  <2> QED
    BY <2>1, <2>2
<1> QED
  BY <1>4, <1>5 DEF NamesInv

(* An open file is there until somebody unlinks it. *)
LEMMA CreateOpen ==
  ASSUME TypeInv, ControlInv, OpenInv, NEW w \in Writers, Create(w)
  PROVE  OpenInv'
<1>1. KeepsWriters(w)
  BY CreateKeeps
<1>2. /\ content \in [Directories -> Contents] /\ Torn \in Values /\ Torn # Absent /\ Absent \in Values
      /\ handle \in [Writers -> Directories \cup {NoDirectory, Unlinked}]
      /\ \A d \in Directories : d # NoDirectory /\ d # Unlinked
  BY Markers DEF TypeInv, Values
<1>3. ASSUME UNCHANGED content \/ CreateTemporary(w), handle'[w] = NoDirectory
      PROVE  OpenInv'
  <2>1. SUFFICES ASSUME NEW v \in Writers, handle'[v] \in Directories
                 PROVE  content'[handle'[v]][pc'[v]] # Absent
    BY DEF OpenInv
  <2>2. v # w
    BY <1>2, <1>3, <2>1
  <2>3. handle'[v] = handle[v] /\ pc'[v] = pc[v]
    BY <1>1, <1>2, <2>1, <2>2 DEF KeepsWriters, Unlinked, Directories
  <2>4. content'[handle[v]] = content[handle[v]]
    <3>1. CASE UNCHANGED content
      BY <3>1
    <3>2. CASE CreateTemporary(w) /\ entry[Temporary(w)] = NoDirectory
      <4>1. FreshDirectory \notin InUse
        BY <3>2, FreshExists DEF CreateTemporary, WriterMoves
      <4>2. content' = [content EXCEPT ![FreshDirectory] = NoFiles] /\ FreshDirectory # handle[v]
        BY <3>2, <4>1 DEF CreateTemporary, InUse
      <4> QED
        BY <1>2, <2>1, <2>3, <4>2
    <3>3. CASE CreateTemporary(w) /\ entry[Temporary(w)] # NoDirectory
      BY <3>3 DEF CreateTemporary
    <3> QED
      BY <1>3, <3>1, <3>2, <3>3
  <2> QED
    BY <2>1, <2>3, <2>4 DEF OpenInv
<1>4. CASE OpenFile(w)
  <2>1. PICK d \in Directories : d = entry[Temporary(w)]
    BY <1>4, Basics DEF OpenFile, TypeInv
  <2>2. content' = [content EXCEPT ![d][pc[w]] = Torn] /\ UNCHANGED pc /\ pc[w] \in Files
    BY <1>4, <2>1 DEF OpenFile
  <2>3. handle' = [handle EXCEPT ![w] = d]
    BY <1>4, <2>1 DEF OpenFile
  <2>4. /\ content'[d][pc[w]] = Torn
        /\ \A g \in Files : g # pc[w] => content'[d][g] = content[d][g]
        /\ \A e \in Directories : e # d => content'[e] = content[e]
    <3>1. content'[d] = [content[d] EXCEPT ![pc[w]] = Torn]
      BY <1>2, <2>2
    <3>2. content[d] \in [Files -> Values \cup Manifests]
      BY <1>2 DEF Contents
    <3>3. \A e \in Directories : e # d => content'[e] = content[e]
      BY <1>2, <2>2
    <3> QED
      BY <2>2, <3>1, <3>2, <3>3
  <2> SUFFICES ASSUME NEW v \in Writers, handle'[v] \in Directories
               PROVE  content'[handle'[v]][pc[v]] # Absent
    BY <2>2 DEF OpenInv
  <2>5. CASE v = w
    BY <1>2, <2>3, <2>4, <2>5
  <2>6. CASE v # w
    <3>1. handle'[v] = handle[v] /\ content[handle[v]][pc[v]] # Absent /\ pc[v] \in Files
      BY <1>2, <2>3, <2>6 DEF OpenInv, ControlInv
    <3> QED
      BY <1>2, <2>4, <3>1
  <2> QED
    BY <2>5, <2>6
<1>5. CASE WriteFile(w)
  <2>1. pc[w] \in Files /\ handle' = [handle EXCEPT ![w] = NoDirectory]
    BY <1>5 DEF WriteFile
  <2>2. CASE handle[w] = Unlinked
    <3>1. UNCHANGED content /\ handle'[w] = NoDirectory
      BY <1>2, <1>5, <2>1, <2>2 DEF WriteFile
    <3> QED
      BY <1>3, <3>1
  <2>3. CASE handle[w] # Unlinked
    <3>1. PICK d \in Directories : d = handle[w]
      BY <1>2, <1>5, <2>3 DEF WriteFile
    <3>2. content' = [content EXCEPT ![d][pc[w]] = Data(w)]
      BY <1>5, <2>3, <3>1 DEF WriteFile
    <3>3. Data(w) # Absent
      <4>1. Argument[w] # Absent
        BY Basics, Markers
      <4>2. pc[w] = "shared" => image[w] # Absent
        BY DEF ControlInv
      <4>3. ManifestOf(Argument[w], sums[w].object, sums[w].shared) # Absent
        <5>1. sums[w] \in [object : Values, shared : Values] /\ Argument[w] \in Images
          BY Basics DEF TypeInv
        <5>2. ManifestOf(Argument[w], sums[w].object, sums[w].shared) \in Manifests
          BY <5>1 DEF ManifestOf, Manifests
        <5> QED
          BY <5>2, Markers
      <4> QED
        BY <2>1, <4>1, <4>2, <4>3 DEF Data, Files
    <3>4. /\ content'[d][pc[w]] = Data(w)
          /\ \A g \in Files : g # pc[w] => content'[d][g] = content[d][g]
          /\ \A e \in Directories : e # d => content'[e] = content[e]
      <4>1. content'[d] = [content[d] EXCEPT ![pc[w]] = Data(w)]
        BY <1>2, <3>2
      <4>2. content[d] \in [Files -> Values \cup Manifests]
        BY <1>2 DEF Contents
      <4>3. \A e \in Directories : e # d => content'[e] = content[e]
        BY <1>2, <3>2
      <4> QED
        BY <2>1, <4>1, <4>2, <4>3
    <3> SUFFICES ASSUME NEW v \in Writers, handle'[v] \in Directories
                 PROVE  content'[handle'[v]][pc'[v]] # Absent
      BY DEF OpenInv
    <3>5. v # w
      BY <1>2, <2>1
    <3>6. handle'[v] = handle[v] /\ pc'[v] = pc[v] /\ content[handle[v]][pc[v]] # Absent
          /\ pc[v] \in Files
      BY <1>1, <1>2, <2>1, <3>5 DEF KeepsWriters, OpenInv, ControlInv
    <3> QED
      BY <3>3, <3>4, <3>6
  <2> QED
    BY <2>2, <2>3
<1>6. ASSUME NEW f \in Files, RemoveEntry(w, f) PROVE OpenInv'
  <2>1. PICK d \in Directories : d = removing[w]
    BY <1>6 DEF RemoveEntry, TypeInv
  <2>2. content' = [content EXCEPT ![d][f] = Absent] /\ UNCHANGED pc
        /\ handle' = [v \in Writers |-> IF handle[v] = d /\ pc[v] = f THEN Unlinked ELSE handle[v]]
    BY <1>6, <2>1 DEF RemoveEntry
  <2>3. /\ \A g \in Files : g # f => content'[d][g] = content[d][g]
        /\ \A e \in Directories : e # d => content'[e] = content[e]
    <3>1. content' = [content EXCEPT ![d][f] = Absent]
      BY <2>2
    <3> QED
      BY <1>2, <3>1, ContentUpdate
  <2> SUFFICES ASSUME NEW v \in Writers, handle'[v] \in Directories
               PROVE  content'[handle'[v]][pc[v]] # Absent
    BY <2>2 DEF OpenInv
  <2>4. handle'[v] = handle[v] /\ ~ (handle[v] = d /\ pc[v] = f)
    BY <1>2, <2>2
  <2>5. content[handle[v]][pc[v]] # Absent /\ pc[v] \in Files
    BY <1>2, <2>4 DEF OpenInv, ControlInv
  <2> QED
    BY <2>3, <2>4, <2>5
<1>7. CASE /\ ~ (OpenFile(w) \/ WriteFile(w))
           /\ ~ \E f \in Files : RemoveEntry(w, f)
  <2>1. UNCHANGED content \/ CreateTemporary(w)
    BY <1>7 DEF Create, Compile, RemoveNothing, OpenForRemoval, RemoveDirectory, RemovalFails, CreateFails,
                WriteShort, Link, Checksum, Fail, Rename, RenameFails, Rethrow, fileVars
  <2>2. CASE handle'[w] = handle[w] /\ pc[w] \notin Files
    BY <1>3, <2>1, <2>2 DEF ControlInv
  <2>3. CASE Compile(w) \/ RemoveNothing(w) \/ OpenForRemoval(w) \/ CreateTemporary(w) \/ Link(w)
             \/ Checksum(w, "object", "sum object", "sum shared")
    <3>1. UNCHANGED handle /\ pc[w] \notin Files
      BY <2>3 DEF Compile, RemoveNothing, OpenForRemoval, CreateTemporary, Link, Checksum,
                  WriterMoves, IsRemoving, Files
    <3> QED
      BY <2>2, <3>1
  <2>4. CASE Checksum(w, "shared", "sum shared", "manifest")
    <3>1. UNCHANGED handle /\ pc[w] \notin Files
      BY <2>4 DEF Checksum, WriterMoves, Files
    <3> QED
      BY <2>2, <3>1
  <2>5. CASE WriteShort(w)
    <3>1. handle'[w] = NoDirectory
      BY <2>5, <1>2 DEF WriteShort
    <3> QED
      BY <1>3, <2>1, <3>1
  <2>6. CASE RemoveDirectory(w)
    <3>1. CASE RemovalThrows(w)
      BY <1>3, <2>1, <3>1, RemovalThrowsType
    <3>2. CASE ~ RemovalThrows(w)
      <4>1. UNCHANGED handle /\ removing[w] # NoDirectory
        BY <2>6, <3>2 DEF RemoveDirectory
      <4>2. pc[w] \notin Files
        BY <4>1 DEF ControlInv, IsRemoving, Files
      <4> QED
        BY <2>2, <4>1, <4>2
    <3> QED
      BY <3>1, <3>2
  <2>7. CASE RemovalFails(w)
    <3>1. handle'[w] = NoDirectory
      BY <2>7, RemovalThrowsType DEF RemovalFails
    <3> QED
      BY <1>3, <2>1, <3>1
  <2>8. CASE CreateFails(w) \/ Rename(w) \/ Rethrow(w)
    <3>1. handle'[w] = NoDirectory
      BY <2>8, EndCallType DEF CreateFails, Rename, Rethrow
    <3> QED
      BY <1>3, <2>1, <3>1
  <2>9. CASE Fail(w) \/ RenameFails(w)
    <3>1. handle'[w] = NoDirectory
      BY <2>9, ThrowType DEF Fail, RenameFails
    <3> QED
      BY <1>3, <2>1, <3>1
  <2> QED
    BY <1>7, <2>3, <2>4, <2>5, <2>6, <2>7, <2>8, <2>9 DEF Create
<1> QED
  BY <1>4, <1>5, <1>6, <1>7

LEMMA CreateOwner ==
  ASSUME TypeInv, ControlInv, OpenInv, NamesInv, OwnerInv, NEW w \in Writers, Create(w)
  PROVE  OwnerInv'
<1>1. KeepsWriters(w) /\ KeepsContents(w) /\ KeepsEntries(w) /\ OwnStage(w)
  BY CreateKeeps, OwnStageStep
<1>2. Mine(w) = entry[Process[w]] /\ Temporary(w) = Process[w] /\ Processes \subseteq Names
      /\ Published \notin Processes
  BY Basics, NamesAssumption DEF Mine, Names
<1>3. SUFFICES ASSUME NEW p \in Processes, p \notin abandoned', entry'[p] # NoDirectory
               PROVE  \E v \in Writers : Process[v] = p /\ Responsible(v)'
  BY DEF OwnerInv
<1>4. CASE entry'[p] # entry[p]
  <2>1. p = Process[w] /\ pc[w] = "create"
    BY <1>1, <1>2, <1>3, <1>4 DEF KeepsEntries
  <2>2. pc'[w] = "object"
    BY <1>1, <1>4, <2>1 DEF OwnStage
  <2>3. Responsible(w)'
    BY <2>2 DEF Responsible, Building
  <2> QED
    BY <2>1, <2>3
<1>5. CASE entry'[p] = entry[p]
  <2>1. p \notin abandoned
    BY <1>3, AbandonedStep
  <2>2. PICK v \in Writers : Process[v] = p /\ Responsible(v)
    BY <1>3, <1>5, <2>1 DEF OwnerInv
  <2>3. CASE v = w
    <3>1. Mine(w) # NoDirectory /\ entry'[Process[w]] = Mine(w)
      BY <1>2, <1>3, <1>5, <2>2, <2>3
    <3>2. /\ pc'[w] \in Building \cup {"cleanup"}
          /\ pc'[w] = "cleanup" /\ removing'[w] # NoDirectory =>
               removing'[w] = Mine(w) /\ PresentIn(removing[w])' \subseteq listed'[w]
      BY <1>1, <1>3, <2>2, <2>3, <3>1 DEF OwnStage, StaysResponsible
    <3>3. Responsible(w)'
      BY <3>1, <3>2 DEF Responsible
    <3> QED
      BY <2>2, <2>3, <3>3
  <2>4. CASE v # w /\ pc[w] \in Files /\ Process[w] = p
    <3>1. Responsible(w) /\ removing[w] = NoDirectory
      BY <2>4 DEF Responsible, Files, Building, AfterObject, AfterLoop, AfterShared, ControlInv, IsRemoving
    <3>2. Mine(w) # NoDirectory /\ entry'[Process[w]] = Mine(w)
      BY <1>2, <1>3, <1>5, <2>4
    <3>3. /\ pc'[w] \in Building \cup {"cleanup"}
          /\ pc'[w] = "cleanup" /\ removing'[w] # NoDirectory =>
               removing'[w] = Mine(w) /\ PresentIn(removing[w])' \subseteq listed'[w]
      BY <1>1, <1>3, <2>4, <3>1, <3>2 DEF OwnStage, StaysResponsible
    <3>4. Responsible(w)'
      BY <3>2, <3>3 DEF Responsible
    <3> QED
      BY <2>4, <3>4
  <2>5. CASE v # w /\ ~ (pc[w] \in Files /\ Process[w] = p)
    <3>1. pc'[v] = pc[v] /\ removing'[v] = removing[v] /\ listed'[v] = listed[v]
          /\ entry'[Process[v]] = entry[Process[v]]
      BY <1>1, <1>5, <2>2, <2>5 DEF KeepsWriters
    <3>2. ASSUME pc[v] = "cleanup", removing[v] # NoDirectory
          PROVE  PresentIn(removing[v])' \subseteq listed'[v]
      <4>1. removing[v] = entry[p] /\ PresentIn(removing[v]) \subseteq listed[v] /\ removing[v] \in Directories
        BY <2>2, <3>2 DEF Responsible, TypeInv
      <4>2. pc[w] \in Files => removing[v] # Mine(w)
        BY <1>2, <2>2, <2>5, <4>1, Basics, Markers DEF NamesInv
      <4>3. pc[w] = "create" /\ Mine(w) = NoDirectory => removing[v] # FreshDirectory
        <5>1. SUFFICES ASSUME pc[w] = "create", entry[Temporary(w)] = NoDirectory
                       PROVE  removing[v] # FreshDirectory
          BY <1>2
        <5> QED
          BY <5>1, FreshExists DEF InUse
      <4>4. handle[w] = removing[v] => content[handle[w]][pc[w]] # Absent
        BY <4>1 DEF OpenInv
      <4>5. SUFFICES ASSUME NEW f \in Files, content'[removing[v]][f] # Absent
                     PROVE  content[removing[v]][f] # Absent
        BY <3>1, <4>1 DEF PresentIn
      <4>6. CASE content'[removing[v]] = content[removing[v]]
        BY <4>5, <4>6
      <4>7. CASE content'[removing[v]] # content[removing[v]]
        BY <1>1, <4>1, <4>2, <4>3, <4>4, <4>5, <4>7 DEF KeepsContents
      <4> QED
        BY <4>6, <4>7
    <3>3. Responsible(v)'
      BY <2>2, <3>1, <3>2 DEF Responsible
    <3> QED
      BY <2>2, <3>3
  <2> QED
    BY <2>3, <2>4, <2>5
<1> QED
  BY <1>4, <1>5


-----------------------------------------------------------------------------
(* Writers that share no process do not touch each other's directory.      *)
LEMMA Monotone ==
  ASSUME TypeInv, TypeInv', ControlInv, NEW w \in Writers, KeepsHistory(w), Undisturbed'
  PROVE  /\ Undisturbed
         /\ \A v \in Writers : v # w /\ pc[v] # "idle" => Process[v] # Process[w]
<1>1. /\ \A v \in Writers : calls[v] \in Nat /\ calls'[v] \in Nat /\ calls'[v] >= calls[v]
      /\ calls'[w] > 0
      /\ shortWrites \in Nat /\ shortWrites' \in Nat /\ shortWrites' >= shortWrites
      /\ shortWrites' = 0
  BY DEF KeepsHistory, TypeInv, Undisturbed
<1>2. \A u, v \in Writers : Process[u] = Process[v] /\ calls'[u] > 0 /\ calls'[v] > 0 => u = v
  BY DEF Undisturbed, OneWriterPerProcess
<1>3. \A v \in Writers : calls[v] > 0 => calls'[v] > 0
  BY <1>1
<1>4. OneWriterPerProcess
  BY <1>2, <1>3 DEF OneWriterPerProcess
<1>5. shortWrites = 0
  BY <1>1
<1>6. \A v \in Writers : pc[v] # "idle" => calls[v] > 0
  BY DEF ControlInv
<1> QED
  BY <1>1, <1>2, <1>3, <1>4, <1>5, <1>6 DEF Undisturbed

LEMMA Apart ==
  ASSUME TypeInv, ControlInv, NamesInv, NEW w \in Writers, DirectoryInv(w), removing[w] # NoDirectory,
         NEW v \in Writers, Process[v] # Process[w]
  PROVE  removing[w] # Mine(v)
<1>1. pc[w] \in {"clear", "replace", "cleanup"}
  BY DEF ControlInv, IsRemoving
<1>2. Mine(v) = entry[Process[v]] /\ Mine(w) = entry[Process[w]]
      /\ Process[v] \in Names /\ Process[w] \in Names /\ Process[v] \in Processes
  BY Basics DEF Mine
<1>3. CASE pc[w] = "replace"
  BY <1>2, <1>3 DEF NamesInv
<1>4. CASE pc[w] # "replace"
  <2>1. removing[w] = Mine(w)
    BY <1>1, <1>4 DEF DirectoryInv
  <2> QED
    BY <1>2, <2>1 DEF NamesInv
<1> QED
  BY <1>3, <1>4

LEMMA CreateBuildOthers ==
  ASSUME TypeInv, TypeInv', ControlInv, NamesInv, BuildInv, NEW w \in Writers, Create(w), Undisturbed',
         NEW v \in Writers, v # w
  PROVE  DirectoryInv(v)' /\ ProgressInv(v)'
<1>1. KeepsWriters(w) /\ KeepsHistory(w) /\ KeepsContents(w) /\ KeepsEntries(w)
  BY CreateKeeps
<1>2. /\ DirectoryInv(v) /\ ProgressInv(v) /\ DirectoryInv(w)
      /\ pc[v] # "idle" => Process[v] # Process[w]
  BY <1>1, Monotone DEF BuildInv
<1>3. Mine(v) = entry[Process[v]] /\ Mine(w) = entry[Process[w]]
      /\ Temporary(v) = Process[v] /\ Temporary(w) = Process[w]
      /\ Process[v] \in Names /\ Process[w] \in Names
      /\ Process[v] # Published /\ Process[w] # Published
      /\ Mine(v) \in Directories \cup {NoDirectory}
  BY Basics DEF Mine, TypeInv
<1>4. pc'[v] = pc[v] /\ image'[v] = image[v] /\ sums'[v] = sums[v] /\ removing'[v] = removing[v]
      /\ (handle'[v] # handle[v] => removing[w] # NoDirectory /\ handle[v] = removing[w])
  BY <1>1 DEF KeepsWriters
<1>5. CASE pc[v] = "idle"
  <2>1. removing[v] = NoDirectory /\ handle[v] = NoDirectory
    BY <1>5 DEF ControlInv, IsRemoving, Files
  <2>2. removing'[v] = NoDirectory /\ handle'[v] = NoDirectory /\ pc'[v] = "idle"
    BY <1>4, <1>5, <2>1
  <2> QED
    BY <2>2 DEF DirectoryInv, ProgressInv, Building, AfterObject, AfterLoop, AfterShared
<1>6. CASE pc[v] # "idle"
  <2>1. Process[v] # Process[w]
    BY <1>2, <1>6
  <2>2. Mine(v)' = Mine(v)
    <3>1. entry'[Process[v]] = entry[Process[v]]
      BY <1>1, <1>3, <2>1 DEF KeepsEntries, Removed
    <3> QED
      BY <1>3, <3>1 DEF Mine, Temporary
  <2>3. removing[w] # NoDirectory => removing[w] # Mine(v)
    BY <1>2, <2>1, Apart
  <2>4. handle'[v] = handle[v]
    <3>1. handle[v] # NoDirectory => handle[v] = Mine(v)
      BY <1>2 DEF DirectoryInv
    <3> QED
      BY <1>4, <2>3, <3>1
  <2>5. Mine(v) # NoDirectory => content'[Mine(v)] = content[Mine(v)]
    <3>1. Mine(w) # NoDirectory => Mine(w) # Mine(v)
      BY <1>3, <2>1 DEF NamesInv
    <3>2. handle[w] # NoDirectory => handle[w] # Mine(v)
      BY <1>2, <3>1 DEF DirectoryInv
    <3>3. pc[w] = "create" /\ Mine(w) = NoDirectory => FreshDirectory # Mine(v)
      <4>1. SUFFICES ASSUME pc[w] = "create", entry[Temporary(w)] = NoDirectory
                     PROVE  FreshDirectory # Mine(v)
        BY <1>3
      <4> QED
        BY <1>3, <4>1, FreshExists DEF InUse
    <3>4. SUFFICES ASSUME Mine(v) \in Directories PROVE content'[Mine(v)] = content[Mine(v)]
      BY <1>3
    <3>5. Mine(v) # NoDirectory /\ (pc[w] \in Files => Mine(w) # NoDirectory)
      BY <1>2, <3>4, Markers
         DEF DirectoryInv, Files, Building, AfterObject, AfterLoop, AfterShared
    <3> QED
      BY <1>1, <2>3, <3>1, <3>2, <3>3, <3>4, <3>5 DEF KeepsContents
  <2>6. DirectoryInv(v)'
    BY <1>2, <1>4, <2>2, <2>4 DEF DirectoryInv
  <2>7. pc[v] \in AfterObject => Mine(v) # NoDirectory
    BY <1>2 DEF DirectoryInv, Building
  <2>8. ProgressInv(v)'
    BY <1>2, <1>4, <2>2, <2>5, <2>7 DEF ProgressInv, AfterObject, AfterLoop, AfterShared
  <2> QED
    BY <2>6, <2>8
<1> QED
  BY <1>5, <1>6


LEMMA NothingMade ==
  ASSUME NEW w \in Writers, pc'[w] \in {"idle", "clear", "cleanup"},
         removing'[w] = NoDirectory, handle'[w] = NoDirectory
  PROVE  DirectoryInv(w)' /\ ProgressInv(w)'
BY DEF DirectoryInv, ProgressInv, Building, AfterObject, AfterLoop, AfterShared

(* What a writer makes is what it was called with. *)
LEMMA CreateBuildOwn ==
  ASSUME TypeInv, TypeInv', ControlInv, NamesInv, BuildInv, NEW w \in Writers, Create(w), Undisturbed'
  PROVE  DirectoryInv(w)' /\ ProgressInv(w)'
<1>1. KeepsHistory(w) /\ shortWrites = 0 /\ shortWrites' = 0
  BY CreateKeeps, Monotone DEF Undisturbed
<1>2. DirectoryInv(w) /\ ProgressInv(w)
  BY <1>1, Monotone DEF BuildInv
<1>3. /\ Mine(w) = entry[Process[w]] /\ Temporary(w) = Process[w] /\ Process[w] \in Names
      /\ Process[w] # Published /\ Published \in Names
      /\ Mine(w) \in Directories \cup {NoDirectory}
      /\ Mine(w)' = entry'[Process[w]]
      /\ Argument[w] \in Images
  BY Basics DEF Mine, TypeInv, Temporary
<1>4. /\ removing[w] # NoDirectory => pc[w] \in {"clear", "replace", "cleanup"}
      /\ handle[w] # NoDirectory => pc[w] \in Files
  BY DEF ControlInv, IsRemoving
<1>5. CASE Compile(w)
  <2>1. pc[w] = "idle" /\ pc'[w] = "clear" /\ UNCHANGED <<removing, handle>>
    BY <1>5, NextStage, MoveType DEF Compile
  <2> QED
    BY <1>4, <2>1, NothingMade DEF Files
<1>6. CASE RemoveNothing(w)
  <2>1. pc'[w] = AfterRemoval(w) /\ UNCHANGED <<image, sums, removing, handle>>
        /\ UNCHANGED <<entry, content>>
        /\ removing[w] = NoDirectory /\ IsRemoving(w) /\ entry[Removed(w)] = NoDirectory
    BY <1>6, NextStage, MoveType DEF RemoveNothing, fileVars
  <2>2. handle[w] = NoDirectory /\ Mine(w)' = Mine(w)
    BY <1>3, <1>4, <2>1 DEF IsRemoving, Files
  <2>3. CASE pc[w] = "replace"
    <3>1. pc'[w] = "rename"
      BY <2>1, <2>3 DEF AfterRemoval
    <3> QED
      BY <1>2, <2>1, <2>2, <2>3, <3>1
         DEF DirectoryInv, ProgressInv, Building, AfterObject, AfterLoop, AfterShared
  <2>4. CASE pc[w] # "replace"
    <3>1. pc'[w] \in {"create", "rethrow"} /\ Mine(w) = NoDirectory
      BY <1>3, <2>1, <2>4 DEF AfterRemoval, IsRemoving, Removed
    <3> QED
      BY <2>1, <2>2, <3>1
         DEF DirectoryInv, ProgressInv, Building, AfterObject, AfterLoop, AfterShared
  <2> QED
    BY <2>3, <2>4
<1>7. CASE OpenForRemoval(w)
  <2>1. UNCHANGED <<pc, image, sums, handle>> /\ UNCHANGED <<entry, content>> /\ IsRemoving(w)
        /\ removing'[w] = entry[Removed(w)]
    BY <1>7 DEF OpenForRemoval, TypeInv, fileVars
  <2>2. pc[w] \in {"clear", "cleanup"} => removing'[w] = Mine(w)
    BY <1>3, <2>1 DEF Removed
  <2>3. Mine(w)' = Mine(w)
    BY <1>3, <2>1
  <2>4. DirectoryInv(w)'
    BY <1>2, <2>1, <2>2, <2>3 DEF DirectoryInv
  <2> QED
    BY <1>2, <2>1, <2>3, <2>4 DEF ProgressInv
<1>8. ASSUME NEW f \in Files, RemoveEntry(w, f) PROVE DirectoryInv(w)' /\ ProgressInv(w)'
  <2>1. UNCHANGED <<entry, pc, image, sums, removing>> /\ removing[w] # NoDirectory
        /\ content' = [content EXCEPT ![removing[w]][f] = Absent]
    BY <1>8 DEF RemoveEntry
  <2>2. handle[w] = NoDirectory
    BY <1>4, <2>1 DEF Files
  <2>3. handle'[w] = NoDirectory
    BY <1>8, <2>1, <2>2 DEF RemoveEntry
  <2>4. Mine(w)' = Mine(w)
    BY <1>3, <2>1
  <2>5. DirectoryInv(w)'
    BY <1>2, <2>1, <2>3, <2>4 DEF DirectoryInv
  <2>6. CASE pc[w] = "replace"
    <3>1. removing[w] # Mine(w) /\ Mine(w) \in Directories
      BY <1>2, <1>3, <2>1, <2>6, Basics
         DEF NamesInv, DirectoryInv, Building, AfterObject, AfterLoop, AfterShared
    <3>2. content'[Mine(w)] = content[Mine(w)]
      BY <2>1, <3>1 DEF TypeInv
    <3> QED
      BY <1>2, <2>1, <2>4, <2>5, <3>2 DEF ProgressInv
  <2>7. CASE pc[w] # "replace"
    BY <1>4, <2>1, <2>5, <2>7 DEF ProgressInv, AfterObject, AfterLoop, AfterShared
  <2> QED
    BY <2>6, <2>7
<1>9. CASE RemoveDirectory(w)
  <2>1. removing[w] # NoDirectory /\ pc[w] \in {"clear", "replace", "cleanup"} /\ UNCHANGED content
    BY <1>4, <1>9 DEF RemoveDirectory
  <2>2. handle[w] = NoDirectory
    BY <1>4, <2>1 DEF Files
  <2>3. CASE Lookup(Removed(w)) = NoFiles
    <3>1. /\ entry' = [entry EXCEPT ![Removed(w)] = NoDirectory]
          /\ WriterMoves(w, pc[w], AfterRemoval(w))
          /\ removing' = [removing EXCEPT ![w] = NoDirectory]
          /\ UNCHANGED <<image, sums, handle>>
      BY <1>9, <2>3 DEF RemoveDirectory
    <3>2. pc'[w] = AfterRemoval(w) /\ removing'[w] = NoDirectory /\ handle'[w] = NoDirectory
      BY <2>1, <2>2, <3>1, NextStage, MoveType DEF IsRemoving, TypeInv
    <3>3. CASE pc[w] = "replace"
      <4>1. pc'[w] = "rename" /\ Mine(w)' = Mine(w)
        BY <1>3, <3>1, <3>2, <3>3 DEF AfterRemoval, Removed, TypeInv
      <4> QED
        BY <1>2, <2>1, <3>1, <3>2, <3>3, <4>1
           DEF DirectoryInv, ProgressInv, Building, AfterObject, AfterLoop, AfterShared
    <3>4. CASE pc[w] # "replace"
      <4>1. pc'[w] \in {"create", "rethrow"} /\ Mine(w)' = NoDirectory
        BY <1>3, <2>1, <3>1, <3>2, <3>4 DEF AfterRemoval, Removed, TypeInv
      <4> QED
        BY <3>2, <4>1
           DEF DirectoryInv, ProgressInv, Building, AfterObject, AfterLoop, AfterShared
    <3> QED
      BY <3>3, <3>4
  <2>4. CASE Lookup(Removed(w)) # NoFiles
    <3>1. RemovalThrows(w)
      BY <1>9, <2>4 DEF RemoveDirectory
    <3>2. pc'[w] \in {"idle", "cleanup"} /\ removing'[w] = NoDirectory /\ handle'[w] = NoDirectory
      BY <3>1, RemovalThrowsType
    <3> QED
      BY <3>2, NothingMade
  <2> QED
    BY <2>3, <2>4
<1>10. CASE CreateTemporary(w)
  <2>1. pc[w] = "create" /\ pc'[w] = "object" /\ UNCHANGED <<removing, handle>>
    BY <1>10, NextStage, MoveType DEF CreateTemporary
  <2>2. removing'[w] = NoDirectory /\ handle'[w] = NoDirectory
    BY <1>4, <2>1 DEF Files
  <2>3. entry[Temporary(w)] = NoDirectory
    BY <1>2, <1>3, <2>1 DEF DirectoryInv
  <2>4. entry'[Process[w]] = FreshDirectory /\ FreshDirectory \in Directories
    BY <1>3, <1>10, <2>1, <2>3, FreshExists DEF CreateTemporary, TypeInv
  <2>5. Mine(w)' # NoDirectory
    BY <1>3, <2>4, Markers
  <2> QED
    BY <2>1, <2>2, <2>5 DEF DirectoryInv, ProgressInv, Building, AfterObject, AfterLoop, AfterShared
<1>11. CASE OpenFile(w)
  <2>1. /\ pc[w] \in Files /\ Mine(w) \in Directories /\ UNCHANGED <<entry, pc, image, sums, removing>>
        /\ content' = [content EXCEPT ![Mine(w)][pc[w]] = Torn]
        /\ handle'[w] = Mine(w)
    BY <1>3, <1>11 DEF OpenFile, TypeInv, Mine
  <2>2. \A g \in Files : g # pc[w] => content'[Mine(w)][g] = content[Mine(w)][g]
    <3>1. content \in [Directories -> Contents] /\ Torn \in Values
      BY DEF TypeInv, Values
    <3> QED
      BY <2>1, <3>1, ContentUpdate
  <2>3. Mine(w)' = Mine(w)
    BY <1>3, <2>1
  <2>4. DirectoryInv(w)'
    BY <1>2, <2>1, <2>3 DEF DirectoryInv, Files
  <2>5. ProgressInv(w)'
    BY <1>2, <2>1, <2>2, <2>3 DEF ProgressInv, Files, AfterObject, AfterLoop, AfterShared
  <2> QED
    BY <2>4, <2>5
<1>12. CASE WriteFile(w)
  <2>1. /\ pc[w] \in Files /\ pc'[w] = AfterWrite[pc[w]] /\ UNCHANGED <<entry, image, sums, removing>>
        /\ handle[w] = Mine(w) /\ Mine(w) \in Directories /\ handle'[w] = NoDirectory
    BY <1>2, <1>3, <1>12, NextStage, MoveType, ZenonT(40) DEF WriteFile, DirectoryInv, TypeInv
  <2>2. content' = [content EXCEPT ![Mine(w)][pc[w]] = Data(w)]
    BY <1>12, <2>1, Markers DEF WriteFile
  <2>3. /\ content'[Mine(w)][pc[w]] = Data(w)
        /\ \A g \in Files : g # pc[w] => content'[Mine(w)][g] = content[Mine(w)][g]
    <3>1. PICK d \in Directories, c \in Contents, f \in Files : d = Mine(w) /\ c = content[d] /\ f = pc[w]
      BY <2>1 DEF TypeInv
    <3>2. PICK new : new = [c EXCEPT ![f] = Data(w)]
      OBVIOUS
    <3>3. content' = [content EXCEPT ![d] = new]
      BY <2>2, <3>1, <3>2
    <3>4. new[f] = Data(w) /\ \A g \in Files : g # f => new[g] = c[g]
      BY <3>2 DEF Contents
    <3>5. content'[d] = new
      BY <3>3 DEF TypeInv
    <3> QED
      BY <3>1, <3>4, <3>5
  <2>4. Mine(w)' = Mine(w) /\ removing'[w] = NoDirectory /\ Mine(w) # NoDirectory
    BY <1>3, <1>4, <2>1, Markers DEF Files
  <2>5. /\ AfterWrite["object"] = "loop" /\ AfterWrite["loop"] = "link"
        /\ AfterWrite["shared"] = "sum object" /\ AfterWrite["manifest"] = "replace"
    BY DEF AfterWrite
  <2>6. DirectoryInv(w)'
    <3>1. pc'[w] \in {"loop", "link", "sum object", "replace"}
      BY <2>1, <2>5 DEF Files
    <3> QED
      BY <2>1, <2>4, <3>1 DEF DirectoryInv
  <2>7. CASE pc[w] = "object"
    <3>1. Data(w) = Argument[w] /\ pc'[w] = "loop"
      BY <2>1, <2>5, <2>7 DEF Data
    <3> QED
      BY <2>3, <2>4, <2>6, <2>7, <3>1 DEF ProgressInv, AfterObject, AfterLoop, AfterShared
  <2>8. CASE pc[w] = "loop"
    <3>1. Data(w) = Argument[w] /\ pc'[w] = "link"
      BY <2>1, <2>5, <2>8 DEF Data
    <3> QED
      BY <1>2, <2>3, <2>4, <2>6, <2>8, <3>1 DEF ProgressInv, AfterObject, AfterLoop, AfterShared, Files
  <2>9. CASE pc[w] = "shared"
    <3>1. Data(w) = Argument[w] /\ pc'[w] = "sum object"
      BY <1>2, <2>1, <2>5, <2>9 DEF Data, ProgressInv
    <3> QED
      BY <1>2, <2>3, <2>4, <2>6, <2>9, <3>1 DEF ProgressInv, AfterObject, AfterLoop, AfterShared, Files
  <2>10. CASE pc[w] = "manifest"
    <3>1. Data(w) = ManifestOf(Argument[w], Argument[w], Argument[w]) /\ pc'[w] = "replace"
      BY <1>2, <2>1, <2>5, <2>10 DEF Data, ProgressInv
    <3> QED
      BY <1>2, <2>3, <2>4, <2>6, <2>10, <3>1 DEF ProgressInv, AfterObject, AfterLoop, AfterShared, Files
  <2> QED
    BY <2>1, <2>7, <2>8, <2>9, <2>10 DEF Files
<1>13. CASE WriteShort(w)
  <2>1. shortWrites' = shortWrites + 1
    BY <1>13 DEF WriteShort
  <2> QED
    BY <1>1, <2>1
<1>14. CASE Link(w)
  <2>1. pc[w] = "link" /\ pc'[w] = "shared" /\ UNCHANGED <<removing, handle, sums>>
        /\ UNCHANGED <<entry, content>> /\ image'[w] = Lookup(Temporary(w)).object
    BY <1>14, NextStage, MoveType, ZenonT(40) DEF Link, TypeInv, fileVars
  <2>2. Mine(w) # NoDirectory /\ content[Mine(w)]["object"] = Argument[w]
        /\ content[Mine(w)]["loop"] = Argument[w]
    BY <1>2, <2>1 DEF DirectoryInv, ProgressInv, Building, AfterObject, AfterLoop
  <2>3. image'[w] = Argument[w]
    BY <1>3, <2>1, <2>2 DEF Lookup
  <2>4. Mine(w)' = Mine(w) /\ removing'[w] = NoDirectory /\ handle'[w] = NoDirectory
    BY <1>3, <1>4, <2>1 DEF Files
  <2>5. DirectoryInv(w)'
    BY <2>1, <2>2, <2>4 DEF DirectoryInv
  <2> QED
    BY <2>1, <2>2, <2>3, <2>4, <2>5 DEF ProgressInv, AfterObject, AfterLoop, AfterShared
<1>15. CASE Checksum(w, "object", "sum object", "sum shared")
  <2>1. pc[w] = "sum object" /\ pc'[w] = "sum shared" /\ UNCHANGED <<removing, handle, image>>
        /\ UNCHANGED <<entry, content>>
    BY <1>15, NextStage, MoveType DEF Checksum, fileVars
  <2>2. /\ Mine(w) # NoDirectory /\ content[Mine(w)]["object"] = Argument[w]
        /\ content[Mine(w)]["loop"] = Argument[w] /\ content[Mine(w)]["shared"] = Argument[w]
    BY <1>2, <2>1 DEF DirectoryInv, ProgressInv, Building, AfterObject, AfterLoop, AfterShared
  <2>3. Lookup(Temporary(w))["object"] = Argument[w]
    BY <1>3, <2>2 DEF Lookup
  <2>4. sums'[w].object = Argument[w]
    BY <1>15, <2>3 DEF Checksum, TypeInv
  <2>5. Mine(w)' = Mine(w) /\ removing'[w] = NoDirectory /\ handle'[w] = NoDirectory
    BY <1>3, <1>4, <2>1 DEF Files
  <2>6. DirectoryInv(w)'
    BY <2>1, <2>2, <2>5 DEF DirectoryInv
  <2> QED
    BY <2>1, <2>2, <2>4, <2>5, <2>6 DEF ProgressInv, AfterObject, AfterLoop, AfterShared
<1>16. CASE Checksum(w, "shared", "sum shared", "manifest")
  <2>1. pc[w] = "sum shared" /\ pc'[w] = "manifest" /\ UNCHANGED <<removing, handle, image>>
        /\ UNCHANGED <<entry, content>>
    BY <1>16, NextStage, MoveType DEF Checksum, fileVars
  <2>2. /\ Mine(w) # NoDirectory /\ content[Mine(w)]["object"] = Argument[w]
        /\ content[Mine(w)]["loop"] = Argument[w] /\ content[Mine(w)]["shared"] = Argument[w]
        /\ sums[w].object = Argument[w]
    BY <1>2, <2>1 DEF DirectoryInv, ProgressInv, Building, AfterObject, AfterLoop, AfterShared
  <2>3. Lookup(Temporary(w))["shared"] = Argument[w]
    BY <1>3, <2>2 DEF Lookup
  <2>4. sums'[w].object = Argument[w] /\ sums'[w].shared = Argument[w]
    BY <1>16, <2>2, <2>3 DEF Checksum, TypeInv
  <2>5. Mine(w)' = Mine(w) /\ removing'[w] = NoDirectory /\ handle'[w] = NoDirectory
    BY <1>3, <1>4, <2>1 DEF Files
  <2>6. DirectoryInv(w)'
    BY <2>1, <2>2, <2>5 DEF DirectoryInv
  <2> QED
    BY <2>1, <2>2, <2>4, <2>5, <2>6 DEF ProgressInv, AfterObject, AfterLoop, AfterShared
<1>17. CASE Fail(w) \/ RenameFails(w)
  <2>1. Throw(w)
    BY <1>17 DEF Fail, RenameFails
  <2> QED
    BY <2>1, ThrowType, NothingMade
<1>18. CASE Rename(w) \/ Rethrow(w) \/ CreateFails(w)
  <2>1. EndCall(w)
    BY <1>18 DEF Rename, Rethrow, CreateFails
  <2> QED
    BY <2>1, EndCallType, NothingMade
<1>19. CASE RemovalFails(w)
  <2>1. pc'[w] \in {"idle", "cleanup"} /\ removing'[w] = NoDirectory /\ handle'[w] = NoDirectory
    BY <1>19, RemovalThrowsType DEF RemovalFails
  <2> QED
    BY <2>1, NothingMade
<1> QED
  BY <1>5, <1>6, <1>7, <1>8, <1>9, <1>10, <1>11, <1>12, <1>13, <1>14, <1>15, <1>16, <1>17, <1>18, <1>19
     DEF Create

LEMMA CreateBuild ==
  ASSUME TypeInv, TypeInv', ControlInv, NamesInv, BuildInv, NEW w \in Writers, Create(w)
  PROVE  BuildInv'
<1>1. SUFFICES ASSUME Undisturbed', NEW v \in Writers PROVE DirectoryInv(v)' /\ ProgressInv(v)'
  BY DEF BuildInv
<1> QED
  BY <1>1, CreateBuildOthers, CreateBuildOwn


-----------------------------------------------------------------------------
(* What is published.                                                      *)
LEMMA PackageMade ==
  ASSUME NEW w \in Writers, ProgressInv(w), pc[w] = "rename", content \in [Directories -> Contents],
         Mine(w) \in Directories
  PROVE  content[Mine(w)] = PackageOf(Argument[w])
<1>1. PICK c \in Contents : c = content[Mine(w)]
  OBVIOUS
<1>2. /\ c["object"] = Argument[w] /\ c["loop"] = Argument[w] /\ c["shared"] = Argument[w]
      /\ c["manifest"] = ManifestOf(Argument[w], Argument[w], Argument[w])
  BY <1>1 DEF ProgressInv, AfterObject, AfterLoop, AfterShared
<1>3. \A f \in Files : c[f] = PackageOf(Argument[w])[f]
  BY <1>2 DEF Files, PackageOf
<1>4. c \in [Files -> Values \cup Manifests] /\ PackageOf(Argument[w]) \in [Files -> Values \cup Manifests]
  BY <1>1, Basics, ContentsHave DEF Contents
<1> QED
  BY <1>1, <1>3, <1>4

(* A rename publishes what the writer has made; other steps of a writer    *)
(* leave the published directory, unless they remove from it.              *)
LEMMA PublishedStep ==
  ASSUME TypeInv, ControlInv, NamesInv, NEW w \in Writers, DirectoryInv(w), ProgressInv(w), Create(w)
  PROVE  \/ entry'[Published] = NoDirectory
         \/ entry'[Published] \in Directories /\ content'[entry'[Published]] = PackageOf(Argument[w])
         \/ /\ entry'[Published] = entry[Published] /\ entry[Published] \in Directories
            /\ content'[entry[Published]] = content[entry[Published]]
         \/ /\ entry'[Published] = entry[Published] /\ entry[Published] \in Directories
            /\ removing[w] = entry[Published] /\ removing[w] # NoDirectory
            /\ \A f \in Files : content'[entry[Published]][f] \in {content[entry[Published]][f], Absent}
<1>1. KeepsContents(w) /\ KeepsEntries(w)
  BY CreateKeeps
<1>2. /\ Temporary(w) \in Names /\ Published \in Names /\ Published # Temporary(w)
      /\ Mine(w) = entry[Temporary(w)] /\ entry[Published] \in Directories \cup {NoDirectory}
      /\ Mine(w) \in Directories \cup {NoDirectory}
  BY Basics DEF Mine, TypeInv
<1>3. CASE entry'[Published] # entry[Published] /\ entry'[Published] # NoDirectory
  <2>1. pc[w] = "rename" /\ entry'[Published] = Mine(w) /\ Mine(w) \in Directories
    BY <1>1, <1>2, <1>3 DEF KeepsEntries
  <2>2. removing[w] = NoDirectory /\ handle[w] = NoDirectory
    BY <2>1 DEF ControlInv, IsRemoving, Files
  <2>3. content'[Mine(w)] = content[Mine(w)]
    BY <1>1, <2>1, <2>2, Markers DEF KeepsContents, Files
  <2>4. content[Mine(w)] = PackageOf(Argument[w])
    BY <2>1, PackageMade DEF TypeInv
  <2> QED
    BY <2>1, <2>3, <2>4
<1>4. CASE entry'[Published] = entry[Published] /\ entry[Published] # NoDirectory
  <2>1. Mine(w) # entry[Published] /\ entry[Published] \in Directories
    BY <1>2, <1>4 DEF NamesInv
  <2>2. handle[w] # entry[Published]
    BY <1>4, <2>1 DEF DirectoryInv
  <2>3. pc[w] = "create" /\ Mine(w) = NoDirectory => FreshDirectory # entry[Published]
    BY <1>2, FreshExists DEF InUse
  <2>4. \/ content'[entry[Published]] = content[entry[Published]]
        \/ /\ removing[w] = entry[Published]
           /\ \A f \in Files : content'[entry[Published]][f] \in {content[entry[Published]][f], Absent}
    BY <1>1, <2>1, <2>2, <2>3 DEF KeepsContents
  <2> QED
    BY <1>4, <2>1, <2>4
<1> QED
  BY <1>3, <1>4

LEMMA CreateShown ==
  ASSUME TypeInv, TypeInv', ControlInv, NamesInv, BuildInv, ShownInv, NEW w \in Writers, Create(w)
  PROVE  ShownInv'
<1>1. SUFFICES ASSUME Undisturbed'
               PROVE  \E l \in Images : \A f \in Files :
                        Lookup(Published)'[f] \in {PackageOf(l)[f], Absent}
  BY DEF ShownInv, PublishedIsConsistent, Undisturbed
<1>2. Undisturbed /\ DirectoryInv(w) /\ ProgressInv(w)
  BY <1>1, CreateKeeps, Monotone DEF BuildInv
<1>3. PICK l \in Images : \A f \in Files : Lookup(Published)[f] \in {PackageOf(l)[f], Absent}
  BY <1>2 DEF ShownInv, PublishedIsConsistent, Undisturbed
<1>4. Lookup(Published)' = IF entry'[Published] = NoDirectory THEN NoFiles
                           ELSE content'[entry'[Published]]
  BY DEF Lookup
<1>5. \A f \in Files : NoFiles[f] = Absent
  BY DEF NoFiles
<1>6. CASE entry'[Published] = NoDirectory
  BY <1>3, <1>4, <1>5, <1>6
<1>7. CASE entry'[Published] \in Directories /\ content'[entry'[Published]] = PackageOf(Argument[w])
  BY <1>4, <1>7, Basics, Markers
<1>8. CASE /\ entry'[Published] = entry[Published] /\ entry[Published] \in Directories
           /\ \A f \in Files : content'[entry[Published]][f] \in {content[entry[Published]][f], Absent}
  <2>1. Lookup(Published) = content[entry[Published]]
        /\ Lookup(Published)' = content'[entry[Published]]
    BY <1>4, <1>8, Markers DEF Lookup
  <2> QED
    BY <1>3, <1>8, <2>1
<1> QED
  BY <1>2, <1>6, <1>7, <1>8, PublishedStep

(* Who leaves the path empty, or not whole, is about to rename, or has     *)
(* broken the replacement off.                                             *)
LEMMA OwnStay ==
  ASSUME TypeInv, ControlInv, NamesInv, NEW w \in Writers, DirectoryInv(w), Create(w), ~ Rename(w),
         published'
  PROVE  /\ published
         /\ pc[w] = "rename" => Lookup(Published) # NoFiles
         /\ removing[w] = entry[Published] /\ removing[w] # NoDirectory =>
              \/ /\ entry'[Published] = entry[Published]
                 /\ pc'[w] = "replace" /\ removing'[w] = removing[w]
              \/ entry'[Published] = NoDirectory /\ pc'[w] = "rename"
         /\ entry'[Published] # entry[Published] =>
              entry'[Published] = NoDirectory /\ pc'[w] = "rename"
<1>1. KeepsEntries(w)
  BY CreateKeeps
<1>2. /\ Temporary(w) \in Names /\ Published \in Names /\ Published # Temporary(w)
      /\ Mine(w) = entry[Temporary(w)]
  BY Basics DEF Mine
<1>3. published /\ (Throw(w) => ~ Replacing(w))
  <2>1. CASE RemoveDirectory(w) \/ RemovalFails(w)
    <3>1. published' = published \/ RemovalThrows(w)
      BY <2>1 DEF RemoveDirectory, RemovalFails
    <3>2. published
      BY <3>1, RemovalThrowsType
    <3> QED
      BY <3>2, ThrowType
  <2>2. CASE Fail(w) \/ RenameFails(w)
    BY <2>2, ThrowType DEF Fail, RenameFails
  <2>3. CASE ~ (RemoveDirectory(w) \/ RemovalFails(w) \/ Fail(w) \/ RenameFails(w))
    <3>1. \/ Compile(w) \/ RemoveNothing(w) \/ WriteShort(w) \/ UNCHANGED history
      BY <2>3 DEF Create, OpenForRemoval, RemoveEntry, CreateTemporary, CreateFails,
                  OpenFile, WriteFile, Link, Checksum, Rethrow
    <3>2. published
      BY <3>1 DEF Compile, RemoveNothing, WriteShort, history
    <3> QED
      BY <3>2, ThrowType
  <2> QED
    BY <2>1, <2>2, <2>3
<1>4. pc[w] = "rename" => RenameFails(w)
  BY DEF Create, Compile, RemoveNothing, OpenForRemoval, RemoveEntry, RemoveDirectory, RemovalFails,
         CreateTemporary, CreateFails, OpenFile, WriteFile, WriteShort, Link, Checksum, Fail, Rethrow,
         WriterMoves, Files, ControlInv, IsRemoving
<1>5. pc[w] = "rename" => Lookup(Published) # NoFiles /\ entry' = entry
  BY <1>3, <1>4 DEF RenameFails, Replacing, fileVars
<1>6. ASSUME removing[w] # NoDirectory
      PROVE  /\ pc[w] \in {"clear", "replace", "cleanup"}
             /\ RemoveDirectory(w) \/ RemovalFails(w) \/ \E f \in Files : RemoveEntry(w, f)
  <2>1. pc[w] \in {"clear", "replace", "cleanup"}
    BY <1>6 DEF ControlInv, IsRemoving
  <2>2. handle[w] = NoDirectory
    BY <2>1 DEF ControlInv, Files
  <2> QED
    BY <1>6, <2>1, <2>2 DEF Create, Compile, RemoveNothing, OpenForRemoval, CreateTemporary,
         CreateFails, OpenFile, WriteFile, WriteShort, Link, Checksum, Fail, Rename, RenameFails, Rethrow,
         WriterMoves, Files
<1>7. ASSUME removing[w] # NoDirectory, pc[w] = "replace", entry'[Published] # entry[Published]
      PROVE  entry'[Published] = NoDirectory /\ pc'[w] = "rename"
  <2>1. entry'[Published] = NoDirectory
    BY <1>1, <1>2, <1>7 DEF KeepsEntries
  <2>2. RemoveDirectory(w) /\ Lookup(Removed(w)) = NoFiles
    BY <1>6, <1>7 DEF RemoveEntry, RemoveDirectory, RemovalFails, fileVars
  <2>3. WriterMoves(w, pc[w], AfterRemoval(w))
    BY <2>2 DEF RemoveDirectory
  <2>4. AfterRemoval(w) = "rename"
    BY <1>7 DEF AfterRemoval
  <2>5. WriterMoves(w, pc[w], "rename") /\ "rename" \in Stages
    BY <2>3, <2>4, NextStage
  <2> QED
    BY <2>1, <2>5, MoveType
<1>8. ASSUME removing[w] = entry[Published], removing[w] # NoDirectory
      PROVE  \/ /\ entry'[Published] = entry[Published]
                /\ pc'[w] = "replace" /\ removing'[w] = removing[w]
             \/ entry'[Published] = NoDirectory /\ pc'[w] = "rename"
  <2>1. pc[w] = "replace"
    <3>1. entry[Published] # Mine(w)
      BY <1>2, <1>8 DEF NamesInv
    <3> QED
      BY <1>6, <1>8, <3>1 DEF DirectoryInv
  <2>2. ASSUME NEW f \in Files, RemoveEntry(w, f)
        PROVE  entry' = entry /\ pc' = pc /\ removing' = removing
    BY <2>2 DEF RemoveEntry
  <2>4. Replacing(w) /\ ~ RemovalThrows(w)
    BY <1>3, <1>8, <2>1 DEF Replacing, RemovalThrows
  <2>5. ~ RemovalFails(w)
    BY <2>4 DEF RemovalFails
  <2>3. CASE RemoveDirectory(w)
    <3>2. /\ entry' = [entry EXCEPT ![Published] = NoDirectory]
          /\ WriterMoves(w, pc[w], AfterRemoval(w))
      BY <2>1, <2>3, <2>4 DEF RemoveDirectory, Removed
    <3>3. AfterRemoval(w) = "rename"
      BY <2>1 DEF AfterRemoval
    <3>4. pc'[w] = "rename"
      <4>1. WriterMoves(w, pc[w], "rename") /\ "rename" \in Stages
        BY <3>2, <3>3, NextStage
      <4> QED
        BY <4>1, MoveType
    <3>5. entry'[Published] = NoDirectory
      BY <1>2, <3>2 DEF TypeInv
    <3> QED
      BY <3>4, <3>5
  <2> QED
    BY <1>6, <1>8, <2>1, <2>2, <2>3, <2>5
<1>9. ASSUME entry'[Published] # entry[Published]
      PROVE  entry'[Published] = NoDirectory /\ pc'[w] = "rename"
  <2>1. removing[w] # NoDirectory /\ Published = Removed(w)
    BY <1>1, <1>2, <1>5, <1>9 DEF KeepsEntries
  <2>2. pc[w] = "replace"
    BY <1>2, <2>1 DEF Removed
  <2> QED
    BY <1>7, <1>9, <2>1, <2>2
<1> QED
  BY <1>3, <1>5, <1>8, <1>9


LEMMA CreateStay ==
  ASSUME TypeInv, TypeInv', ControlInv, NamesInv, BuildInv, StayInv, NEW w \in Writers, Create(w)
  PROVE  StayInv'
<1>1. KeepsWriters(w) /\ KeepsHistory(w)
  BY CreateKeeps
<1>2. SUFFICES ASSUME Undisturbed', published'
               PROVE  \/ Whole'
                      \/ \E v \in Writers : Removing(v)'
                      \/ Lookup(Published)' = NoFiles /\ \E v \in Writers : pc'[v] = "rename"
  BY DEF StayInv
<1>3. Undisturbed /\ DirectoryInv(w) /\ ProgressInv(w)
  BY <1>1, <1>2, Monotone DEF BuildInv
<1>4. /\ Temporary(w) \in Names /\ Published \in Names /\ Published # Temporary(w)
      /\ Mine(w) = entry[Temporary(w)] /\ Argument[w] \in Images
  BY Basics DEF Mine
<1>5. /\ Lookup(Published) = IF entry[Published] = NoDirectory THEN NoFiles
                             ELSE content[entry[Published]]
      /\ Lookup(Published)' = IF entry'[Published] = NoDirectory THEN NoFiles
                              ELSE content'[entry'[Published]]
  BY DEF Lookup
<1>6. CASE Rename(w)
  <2>1. /\ pc[w] = "rename" /\ Mine(w) \in Directories /\ content' = content
        /\ entry' = [entry EXCEPT ![Published] = Mine(w), ![Temporary(w)] = NoDirectory]
    BY <1>4, <1>6 DEF Rename, RenameIsPossible, TypeInv, Mine
  <2>2. entry'[Published] = Mine(w)
    BY <1>4, <2>1 DEF TypeInv
  <2>3. content[Mine(w)] = PackageOf(Argument[w])
    BY <1>3, <2>1, PackageMade DEF TypeInv
  <2>4. Lookup(Published)' = PackageOf(Argument[w])
    BY <1>5, <2>1, <2>2, <2>3, Markers
  <2>5. Whole'
    BY <1>4, <2>4 DEF Whole
  <2> QED
    BY <2>5
<1>7. CASE ~ Rename(w)
  <2>1. /\ published
        /\ pc[w] = "rename" => Lookup(Published) # NoFiles
        /\ removing[w] = entry[Published] /\ removing[w] # NoDirectory =>
              \/ /\ entry'[Published] = entry[Published]
                 /\ pc'[w] = "replace" /\ removing'[w] = removing[w]
              \/ entry'[Published] = NoDirectory /\ pc'[w] = "rename"
        /\ entry'[Published] # entry[Published] =>
              entry'[Published] = NoDirectory /\ pc'[w] = "rename"
    BY <1>2, <1>3, <1>7, OwnStay
  <2>2. CASE entry'[Published] = NoDirectory /\ pc'[w] = "rename"
    BY <1>5, <2>2
  <2>3. CASE entry'[Published] = entry[Published] /\ removing[w] = entry[Published]
             /\ removing[w] # NoDirectory /\ pc'[w] = "replace" /\ removing'[w] = removing[w]
    <3>1. Removing(w)'
      BY <2>3 DEF Removing
    <3> QED
      BY <3>1
  <2>4. CASE /\ entry'[Published] = entry[Published]
             /\ removing[w] = entry[Published] => removing[w] = NoDirectory
    <3>1. \A v \in Writers : v # w => (Removing(v)' <=> Removing(v)) /\ pc'[v] = pc[v]
      BY <1>1, <2>4 DEF KeepsWriters, Removing
    <3>2. Lookup(Published)' = Lookup(Published)
      <4>1. CASE entry[Published] = NoDirectory
        BY <1>5, <2>4, <4>1
      <4>2. CASE entry[Published] # NoDirectory
        <5>1. KeepsContents(w) /\ entry[Published] \in Directories
          BY <1>4, <4>2, CreateKeeps DEF TypeInv
        <5>2. Mine(w) # entry[Published]
          BY <1>4, <4>2 DEF NamesInv
        <5>3. handle[w] # entry[Published]
          BY <1>3, <4>2, <5>2 DEF DirectoryInv
        <5>4. pc[w] = "create" /\ Mine(w) = NoDirectory => FreshDirectory # entry[Published]
          BY <1>4, FreshExists DEF InUse
        <5>5. content'[entry[Published]] = content[entry[Published]]
          BY <2>4, <4>2, <5>1, <5>2, <5>3, <5>4 DEF KeepsContents
        <5> QED
          BY <1>5, <2>4, <4>2, <5>5
      <4> QED
        BY <4>1, <4>2
    <3>3. CASE Whole
      BY <3>2, <3>3 DEF Whole
    <3>4. ASSUME NEW v \in Writers, Removing(v) PROVE \E u \in Writers : Removing(u)'
      <4>1. v # w
        BY <2>4, <3>4 DEF Removing
      <4> QED
        BY <3>1, <3>4, <4>1
    <3>5. ASSUME Lookup(Published) = NoFiles, NEW v \in Writers, pc[v] = "rename"
          PROVE  \E u \in Writers : pc'[u] = "rename"
      <4>1. v # w
        BY <2>1, <3>5
      <4>2. pc'[v] = "rename"
        BY <3>1, <3>5, <4>1
      <4> QED
        BY <4>2
    <3> QED
      BY <1>3, <2>1, <3>2, <3>3, <3>4, <3>5 DEF StayInv
  <2> QED
    BY <2>1, <2>2, <2>3, <2>4
<1> QED
  BY <1>6, <1>7

-----------------------------------------------------------------------------
(* The readers.                                                            *)
LEMMA ReadKeeps ==
  ASSUME NEW r \in Readers, Read(r)
  PROVE  UNCHANGED <<entry, content>> /\ UNCHANGED writerVars /\ UNCHANGED history
<1>1. UNCHANGED fileVars /\ UNCHANGED writerVars /\ UNCHANGED history
  BY DEF Read, ReadManifest, Validate, Load, EndRead
<1> QED
  BY <1>1 DEF fileVars

LEMMA ReadStep ==
  ASSUME TypeInv, ReadInv, NEW r \in Readers, Read(r)
  PROVE  ReadInv'
<1>1. /\ rpc \in [Readers -> {"idle", "loop", "object", "shared", "load", "invoke"}]
      /\ manifest \in [Readers -> Manifests \cup {NoManifest}]
      /\ library \in [Readers -> Images \cup {Absent}]
  BY DEF ReadInv
<1>2. CASE ReadManifest(r)
  <2>1. PICK found : found = Lookup(Published).manifest
    OBVIOUS
  <2>2. found \in Manifests
    <3>1. Lookup(Published) \in Contents
      BY LookupType DEF Names
    <3> QED
      BY <1>2, <2>1, <3>1 DEF ReadManifest, Contents
  <2>3. /\ Target[found.loop] = Host /\ rpc' = [rpc EXCEPT ![r] = "loop"]
        /\ manifest' = [manifest EXCEPT ![r] = found] /\ library' = library
    BY <1>2, <2>1 DEF ReadManifest, ReaderMoves
  <2>4. rpc'[r] = "loop" /\ manifest'[r] = found
        /\ \A q \in Readers : q # r => rpc'[q] = rpc[q] /\ manifest'[q] = manifest[q]
    BY <1>1, <2>3
  <2> QED
    BY <1>1, <2>2, <2>3, <2>4 DEF ReadInv
<1>3. ASSUME NEW f, NEW from \in {"loop", "object", "shared"}, NEW to \in {"object", "shared", "load"},
             Validate(r, f, from, to)
      PROVE  ReadInv'
  <2>1. /\ rpc[r] = from /\ rpc' = [rpc EXCEPT ![r] = to]
        /\ manifest' = manifest /\ library' = library
    BY <1>3 DEF Validate, ReaderMoves
  <2>2. rpc'[r] = to /\ \A q \in Readers : q # r => rpc'[q] = rpc[q]
    BY <1>1, <2>1
  <2> QED
    BY <1>1, <2>1, <2>2 DEF ReadInv
<1>4. CASE Load(r)
  <2>1. PICK found : found = Lookup(Published).shared
    OBVIOUS
  <2>2. /\ found \in Images /\ Shape[found] = Shape[manifest[r].loop]
        /\ Target[found] = Target[manifest[r].loop]
        /\ rpc[r] = "load" /\ rpc' = [rpc EXCEPT ![r] = "invoke"]
        /\ library' = [library EXCEPT ![r] = found] /\ manifest' = manifest
    BY <1>4, <2>1 DEF Load, ReaderMoves
  <2>3. rpc'[r] = "invoke" /\ library'[r] = found
        /\ \A q \in Readers : q # r => rpc'[q] = rpc[q] /\ library'[q] = library[q]
    BY <1>1, <2>2
  <2> QED
    BY <1>1, <2>2, <2>3 DEF ReadInv
<1>5. CASE EndRead(r)
  <2>1. /\ rpc' = [rpc EXCEPT ![r] = "idle"] /\ manifest' = [manifest EXCEPT ![r] = NoManifest]
        /\ library' = [library EXCEPT ![r] = Absent]
    BY <1>5 DEF EndRead
  <2>2. rpc'[r] = "idle" /\ \A q \in Readers : q # r =>
          rpc'[q] = rpc[q] /\ manifest'[q] = manifest[q] /\ library'[q] = library[q]
    BY <1>1, <2>1
  <2> QED
    BY <1>1, <2>1, <2>2 DEF ReadInv
<1> QED
  BY <1>2, <1>3, <1>4, <1>5 DEF Read

-----------------------------------------------------------------------------
(* A process that dies takes its threads' work with it, and leaves files.  *)
LEMMA CrashStep ==
  ASSUME IInv, NEW p \in Processes, Crash(p)
  PROVE  IInv'
<1> DEFINE Dead(w) == Process[w] = p
<1>1. /\ UNCHANGED <<entry, content>> /\ UNCHANGED readerVars
      /\ UNCHANGED <<calls, shortWrites>> /\ faults' = faults + 1
      /\ published' = (published /\ \A w \in Writers : Dead(w) => ~ Replacing(w))
      /\ abandoned' = abandoned \cup {p}
  BY DEF Crash, Fault, fileVars
<1>2. \A w \in Writers : Dead(w) =>
        /\ pc'[w] = "idle" /\ image'[w] = Absent /\ sums'[w] = NoSums
        /\ removing'[w] = NoDirectory /\ handle'[w] = NoDirectory
  BY DEF Crash
<1>3. \A w \in Writers : ~ Dead(w) =>
        /\ pc'[w] = pc[w] /\ image'[w] = image[w] /\ sums'[w] = sums[w]
        /\ removing'[w] = removing[w] /\ listed'[w] = listed[w] /\ handle'[w] = handle[w]
  BY DEF Crash
<1>4. TypeInv'
  <2>1. "idle" \in Stages /\ Absent \in Values /\ NoSums \in [object : Values, shared : Values]
    BY DEF Stages, Values, NoSums
  <2>2. pc' \in [Writers -> Stages] /\ image' \in [Writers -> Values]
        /\ sums' \in [Writers -> [object : Values, shared : Values]]
    BY <2>1 DEF Crash, IInv, TypeInv
  <2>3. removing' \in [Writers -> Directories \cup {NoDirectory}]
        /\ listed' \in [Writers -> SUBSET Files]
        /\ handle' \in [Writers -> Directories \cup {NoDirectory, Unlinked}]
    BY DEF Crash, IInv, TypeInv
  <2>4. published' \in BOOLEAN /\ abandoned' \in SUBSET Processes
    BY <1>1 DEF IInv, TypeInv
  <2> QED
    BY <1>1, <2>2, <2>3, <2>4 DEF IInv, TypeInv
<1>5. ControlInv'
  <2>1. SUFFICES ASSUME NEW w \in Writers
                 PROVE  /\ removing'[w] # NoDirectory => pc'[w] \in {"clear", "replace", "cleanup"}
                        /\ handle'[w] # NoDirectory => pc'[w] \in Files
                        /\ pc'[w] = "shared" => image'[w] # Absent
                        /\ pc'[w] # "idle" => calls'[w] > 0
    BY DEF ControlInv, IsRemoving
  <2> QED
    BY <1>1, <1>2, <1>3 DEF IInv, ControlInv, IsRemoving
<1>6. NamesInv'
  <2>1. \A w \in Writers, q \in Processes : pc'[w] = "replace" /\ removing'[w] # NoDirectory =>
          removing'[w] # entry'[q]
    BY <1>1, <1>2, <1>3 DEF IInv, NamesInv
  <2> QED
    BY <1>1, <2>1 DEF IInv, NamesInv
<1>7. OwnerInv'
  <2>1. SUFFICES ASSUME NEW q \in Processes, q \notin abandoned', entry'[q] # NoDirectory
                 PROVE  \E w \in Writers : Process[w] = q /\ Responsible(w)'
    BY DEF OwnerInv
  <2>2. q # p /\ q \notin abandoned /\ entry[q] # NoDirectory
    BY <1>1, <2>1
  <2>3. PICK w \in Writers : Process[w] = q /\ Responsible(w)
    BY <2>1, <2>2 DEF IInv, OwnerInv
  <2>4. Responsible(w)'
    BY <1>1, <1>3, <2>2, <2>3 DEF Responsible, PresentIn
  <2> QED
    BY <2>3, <2>4
<1>11. OpenInv'
  <2>1. SUFFICES ASSUME NEW w \in Writers, handle'[w] \in Directories
                 PROVE  content'[handle'[w]][pc'[w]] # Absent
    BY DEF OpenInv
  <2>2. ~ Dead(w)
    BY <1>2, <2>1, Markers
  <2> QED
    BY <1>1, <1>3, <2>1, <2>2 DEF IInv, OpenInv
<1>12. StayInv'
  <2>1. SUFFICES ASSUME Undisturbed', published'
                 PROVE  \/ Whole'
                        \/ \E w \in Writers : Removing(w)'
                        \/ Lookup(Published)' = NoFiles /\ \E w \in Writers : pc'[w] = "rename"
    BY DEF StayInv
  <2>2. Undisturbed /\ published /\ \A w \in Writers : Dead(w) => ~ Replacing(w)
    BY <1>1, <2>1 DEF Undisturbed, OneWriterPerProcess
  <2>3. Lookup(Published)' = Lookup(Published)
    BY <1>1 DEF Lookup
  <2>4. CASE Whole
    BY <2>3, <2>4 DEF Whole
  <2>5. ASSUME NEW w \in Writers, Removing(w) PROVE Removing(w)'
    <3>1. ~ Dead(w)
      BY <2>2, <2>5 DEF Removing, Replacing
    <3> QED
      BY <1>1, <1>3, <2>5, <3>1 DEF Removing
  <2>6. ASSUME Lookup(Published) = NoFiles, NEW w \in Writers, pc[w] = "rename" PROVE pc'[w] = "rename"
    <3>1. ~ Dead(w)
      BY <2>2, <2>6 DEF Replacing
    <3> QED
      BY <1>3, <2>6, <3>1
  <2> QED
    BY <2>2, <2>3, <2>4, <2>5, <2>6 DEF IInv, StayInv
<1>8. BuildInv'
  <2>1. SUFFICES ASSUME Undisturbed', NEW w \in Writers PROVE DirectoryInv(w)' /\ ProgressInv(w)'
    BY DEF BuildInv
  <2>2. Undisturbed
    BY <1>1, <2>1 DEF Undisturbed, OneWriterPerProcess
  <2>3. CASE Dead(w)
    BY <1>2, <2>3, NothingMade
  <2>4. CASE ~ Dead(w)
    <3>1. DirectoryInv(w) /\ ProgressInv(w)
      BY <2>2 DEF IInv, BuildInv
    <3>2. Mine(w)' = Mine(w)
      BY <1>1 DEF Mine, Temporary
    <3>3. DirectoryInv(w)'
      BY <1>3, <2>4, <3>1, <3>2 DEF DirectoryInv
    <3>4. ProgressInv(w)'
      BY <1>1, <1>3, <2>4, <3>1, <3>2 DEF ProgressInv
    <3> QED
      BY <3>3, <3>4
  <2> QED
    BY <2>3, <2>4
<1>9. ShownInv'
  BY <1>1 DEF IInv, ShownInv, PublishedIsConsistent, OneWriterPerProcess, Lookup
<1>10. ReadInv'
  BY <1>1 DEF IInv, ReadInv, readerVars
<1> QED
  BY <1>4, <1>5, <1>6, <1>7, <1>8, <1>9, <1>10, <1>11, <1>12 DEF IInv

(* Steps that leave the writers and the files alone keep what is said of them. *)
LEMMA Frame ==
  ASSUME IInv, UNCHANGED <<entry, content>>, UNCHANGED writerVars, UNCHANGED history
  PROVE  /\ TypeInv' /\ ControlInv' /\ OpenInv' /\ NamesInv' /\ OwnerInv'
         /\ BuildInv' /\ ShownInv' /\ StayInv'
<1>1. /\ UNCHANGED <<entry, content>>
      /\ UNCHANGED <<pc, image, sums, removing, listed, handle>>
      /\ UNCHANGED <<calls, published, abandoned, faults, shortWrites>>
  BY DEF writerVars, history
<1>2. TypeInv' /\ ControlInv' /\ OpenInv' /\ NamesInv'
  BY <1>1 DEF IInv, TypeInv, ControlInv, OpenInv, NamesInv, IsRemoving
<1>3. OwnerInv'
  BY <1>1 DEF IInv, OwnerInv, Responsible, PresentIn
<1>4. BuildInv'
  <2>1. \A w \in Writers : Mine(w)' = Mine(w)
    BY <1>1 DEF Mine, Temporary
  <2>2. Undisturbed' <=> Undisturbed
    BY <1>1 DEF Undisturbed, OneWriterPerProcess
  <2>3. ASSUME NEW w \in Writers, DirectoryInv(w), ProgressInv(w)
        PROVE  DirectoryInv(w)' /\ ProgressInv(w)'
    BY <1>1, <2>1, <2>3 DEF DirectoryInv, ProgressInv
  <2> QED
    BY <2>2, <2>3 DEF IInv, BuildInv
<1>5. ShownInv'
  BY <1>1 DEF IInv, ShownInv, PublishedIsConsistent, OneWriterPerProcess, Lookup
<1>6. StayInv'
  BY <1>1 DEF IInv, StayInv, Undisturbed, OneWriterPerProcess, Lookup, Whole, Removing
<1> QED
  BY <1>2, <1>3, <1>4, <1>5, <1>6

-----------------------------------------------------------------------------
(* The inductive invariant.                                                *)
LEMMA Starts ==
  ASSUME Init
  PROVE  IInv
<1>1. PICK initial \in {NoFiles} \cup {PackageOf(l) : l \in Imports} :
        /\ content = [d \in Directories |-> IF d = 1 THEN initial ELSE NoFiles]
        /\ entry = [n \in Names |-> IF n = Published /\ initial # NoFiles THEN 1 ELSE NoDirectory]
  BY DEF Init
<1>2. initial \in Contents /\ (initial = NoFiles \/ \E l \in Images : initial = PackageOf(l))
  BY ContentsHave DEF Images
<1>3. 1 \in Directories
  <2>1. Cardinality(Writers) \in Nat
    BY WritersAssumption, FS_CardinalityType
  <2> QED
    BY <2>1 DEF Directories
<1>4. \A w \in Writers : /\ pc[w] = "idle" /\ removing[w] = NoDirectory /\ handle[w] = NoDirectory
                         /\ calls[w] = 0
  BY DEF Init
<1>5. TypeInv
  <2>1. entry \in [Names -> Directories \cup {NoDirectory}] /\ content \in [Directories -> Contents]
    BY <1>1, <1>2, <1>3, ContentsHave
  <2>2. "idle" \in Stages /\ Absent \in Values /\ NoSums \in [object : Values, shared : Values]
    BY DEF Stages, Values, NoSums
  <2>3. pc \in [Writers -> Stages] /\ image \in [Writers -> Values]
        /\ sums \in [Writers -> [object : Values, shared : Values]]
    BY <2>2 DEF Init
  <2>4. /\ removing \in [Writers -> Directories \cup {NoDirectory}]
        /\ listed \in [Writers -> SUBSET Files]
        /\ handle \in [Writers -> Directories \cup {NoDirectory, Unlinked}]
        /\ calls \in [Writers -> Nat] /\ abandoned \in SUBSET Processes
        /\ faults \in Nat /\ shortWrites \in Nat /\ published \in BOOLEAN
    BY DEF Init
  <2> QED
    BY <2>1, <2>3, <2>4 DEF TypeInv
<1>6. ControlInv /\ OpenInv
  BY <1>4, Markers DEF ControlInv, OpenInv
<1>7. NamesInv
  BY <1>1, <1>4 DEF NamesInv
<1>8. \A q \in Processes : entry[q] = NoDirectory
  BY <1>1, NamesAssumption DEF Names
<1>9. OwnerInv
  BY <1>8 DEF OwnerInv
<1>10. BuildInv
  <2>1. ASSUME NEW w \in Writers PROVE DirectoryInv(w) /\ ProgressInv(w)
    BY <1>4 DEF DirectoryInv, ProgressInv, Building, AfterObject, AfterLoop, AfterShared
  <2> QED
    BY <2>1 DEF BuildInv
<1>11. Lookup(Published) = initial
  BY <1>1, <1>3, Markers DEF Lookup, Names
<1>12. ShownInv
  <2>1. \A f \in Files : NoFiles[f] = Absent
    BY DEF NoFiles
  <2>2. \E l \in Images : TRUE
    BY WritersAssumption, Basics
  <2> QED
    BY <1>2, <1>11, <2>1, <2>2 DEF ShownInv, PublishedIsConsistent
<1>13. StayInv
  BY DEF StayInv, Init
<1>14. ReadInv
  <2>1. rpc = [r \in Readers |-> "idle"] /\ manifest = [r \in Readers |-> NoManifest]
        /\ library = [r \in Readers |-> Absent]
    BY DEF Init
  <2> QED
    BY <2>1 DEF ReadInv
<1> QED
  BY <1>5, <1>6, <1>7, <1>9, <1>10, <1>12, <1>13, <1>14 DEF IInv

LEMMA Steps ==
  ASSUME IInv, [Next]_vars
  PROVE  IInv'
<1>1. ASSUME NEW w \in Writers, Create(w) PROVE IInv'
  <2>1. /\ TypeInv /\ ControlInv /\ OpenInv /\ NamesInv /\ OwnerInv
        /\ BuildInv /\ ShownInv /\ StayInv /\ ReadInv
    BY DEF IInv
  <2>2. TypeInv'
    BY <1>1, <2>1, CreateType
  <2>3. ControlInv' /\ OpenInv' /\ NamesInv' /\ OwnerInv'
    BY <1>1, <2>1, CreateControl, CreateOpen, CreateNames, CreateOwner
  <2>4. BuildInv' /\ ShownInv' /\ StayInv'
    BY <1>1, <2>1, <2>2, CreateBuild, CreateShown, CreateStay
  <2>5. ReadInv'
    <3>1. UNCHANGED readerVars
      BY <1>1, <2>1, CreateKeeps DEF KeepsHistory
    <3> QED
      BY <2>1, <3>1 DEF ReadInv, readerVars
  <2> QED
    BY <2>2, <2>3, <2>4, <2>5 DEF IInv
<1>2. ASSUME NEW p \in Processes, Crash(p) PROVE IInv'
  BY <1>2, CrashStep
<1>3. ASSUME NEW r \in Readers, Read(r) PROVE IInv'
  <2>1. /\ TypeInv' /\ ControlInv' /\ OpenInv' /\ NamesInv' /\ OwnerInv'
        /\ BuildInv' /\ ShownInv' /\ StayInv'
    BY <1>3, ReadKeeps, Frame
  <2>2. ReadInv'
    BY <1>3, ReadStep DEF IInv
  <2> QED
    BY <2>1, <2>2 DEF IInv
<1>4. CASE UNCHANGED vars
  <2>1. UNCHANGED <<entry, content>> /\ UNCHANGED writerVars /\ UNCHANGED history /\ UNCHANGED readerVars
    BY <1>4 DEF vars, fileVars
  <2>2. /\ TypeInv' /\ ControlInv' /\ OpenInv' /\ NamesInv' /\ OwnerInv'
        /\ BuildInv' /\ ShownInv' /\ StayInv'
    BY <2>1, Frame
  <2>3. ReadInv'
    BY <2>1 DEF IInv, ReadInv, readerVars
  <2> QED
    BY <2>2, <2>3 DEF IInv
<1> QED
  BY <1>1, <1>2, <1>3, <1>4 DEF Next

(* Everything the proof rests on holds in every reachable state, for any   *)
(* number of calls of create_aot_package and benchmark_aot_package.        *)
THEOREM Invariance == Spec => []IInv
<1>1. Init => IInv
  BY Starts
<1>2. IInv /\ [Next]_vars => IInv'
  BY Steps
<1> QED
  BY <1>1, <1>2, PTL DEF Spec

(* A reader that has passed validate_host, validate_package_files and      *)
(* validate_embedded_metadata calls a kernel made whole from one loop, for *)
(* this machine and the shape of its manifest, whatever writers, crashes  *)
(* and short writes do to the files between its reads.                     *)
THEOREM CallsWhatItValidated == Spec => []CalledForItsShape
<1>1. IInv => CalledForItsShape
  BY DEF IInv, ReadInv, CalledForItsShape
<1> QED
  BY <1>1, Invariance, PTL

(* Among processes with one writer each, and when no end of a file is      *)
(* lost, the directory under the path never shows a torn file or the files *)
(* of two loops, wherever create_aot_package is stopped.                   *)
THEOREM NeverMixed == Spec => []PublishedIsConsistent
<1>1. IInv => PublishedIsConsistent
  BY DEF IInv, ShownInv
<1> QED
  BY <1>1, Invariance, PTL

(* A package that has been published stays whole under the path, except    *)
(* between the remove_all and the rename of a writer that replaces it, and *)
(* after one was broken off there: a death, a failed file, a lost race or  *)
(* an error of the catch clause anywhere else does not take it away.       *)
THEOREM StaysPublished == Spec => []PublishedStays
<1>1. ASSUME IInv PROVE PublishedStays
  <2>1. SUFFICES ASSUME OneWriterPerProcess, shortWrites = 0, published,
                        \A w \in Writers : pc[w] \notin {"replace", "rename"}
                 PROVE  Whole
    BY DEF PublishedStays, Whole
  <2>2. \/ Whole
        \/ \E w \in Writers : Removing(w)
        \/ Lookup(Published) = NoFiles /\ \E w \in Writers : pc[w] = "rename"
    BY <1>1, <2>1 DEF IInv, StayInv, Undisturbed
  <2> QED
    BY <2>1, <2>2 DEF Removing
<1> QED
  BY <1>1, Invariance, PTL

(* When all calls of a process have ended, by return or through the catch  *)
(* clause, its temporary directory is gone, even when its threads have     *)
(* disturbed each other.  A directory that a death or an error of the      *)
(* catch clause's own remove_all has left is gone after the next call that *)
(* gets past clearing the name.                                            *)
THEOREM LeavesNoTemporary == Spec => []TemporariesRemoved
<1>1. ASSUME IInv PROVE TemporariesRemoved
  <2>1. SUFFICES ASSUME NEW p \in Processes, p \notin abandoned, entry[p] # NoDirectory
                 PROVE  \E w \in Writers : Process[w] = p /\ pc[w] # "idle"
    BY DEF TemporariesRemoved
  <2>2. PICK w \in Writers : Process[w] = p /\ Responsible(w)
    BY <1>1, <2>1 DEF IInv, OwnerInv
  <2> QED
    BY <2>2 DEF Responsible, Building, AfterObject, AfterLoop, AfterShared
<1> QED
  BY <1>1, Invariance, PTL

=============================================================================
