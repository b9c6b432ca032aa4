----------------------------- MODULE AotPackage -----------------------------
(***************************************************************************)
(* Packages of ahead-of-time compiled kernels: src/aot_runtime.cpp.        *)
(* create_aot_package builds a package in a temporary directory named      *)
(* after the process, and replaces the published one by remove_all and     *)
(* rename.  benchmark_aot_package reads the manifest, validates the files  *)
(* against it, opens kernel.so again by name, compares the metadata        *)
(* embedded there with the manifest and calls the kernel.                  *)
(*                                                                         *)
(* Writers and readers share nothing but the file system, so a step is one *)
(* call to it.  Threads of one process share the temporary name.  A        *)
(* directory is an inode: it can be renamed or unlinked while it is open.  *)
(* Any call to the file system may fail; what remove_all has removed by    *)
(* then stays removed.                                                     *)
(* A file is what it was made from: a loop, whose text, object code or     *)
(* shared object it is; the checksums of two files are equal when the      *)
(* files are.  A file opened for writing is torn until it is closed: it    *)
(* does not parse, link or load.                                           *)
(***************************************************************************)
EXTENDS Naturals, FiniteSets, Functions

CONSTANTS
  Writers,      \* calls of create_aot_package for one path
  Readers,      \* calls of benchmark_aot_package on it
  Process,      \* the process identifier of each writer
  Loops,        \* loops that are packaged on this machine
  Argument,     \* the loop each writer packages
  Imports,      \* loops of packages that were built on another machine
  Shape,        \* the problem, bias and relu of a loop
  Target,       \* the triple and CPU a loop is compiled for
  Host,         \* the triple and CPU of this machine
  MaxCalls,     \* bound: how often create_aot_package is called
  MaxFaults,    \* bound: how many crashes, short writes and failed removals or renames there are
  Torn, Absent, NoDirectory

ASSUME WritersAssumption == IsFiniteSet(Writers) /\ Writers # {}
ASSUME ProcessAssumption == DOMAIN Process = Writers
ASSUME ArgumentAssumption == Argument \in [Writers -> Loops]
ASSUME ShapeAssumption == DOMAIN Shape = Loops \cup Imports
ASSUME TargetAssumption == /\ DOMAIN Target = Loops \cup Imports
                           /\ \A l \in Loops : Target[l] = Host

Files == {"object", "loop", "shared", "manifest"}
Published == "path"
Processes == {Process[w] : w \in Writers}
ASSUME NamesAssumption == Published \notin Processes      \* path + ".tmp-..." is not path
Names == Processes \cup {Published}
(* Enough for one directory per name and one that each writer still empties. *)
Directories == 1 .. 1 + 2 * Cardinality(Writers)
Unlinked == 0
Images == Loops \cup Imports
ASSUME MarkersAssumption ==
  /\ NoDirectory \notin Directories \cup {Unlinked}
  /\ Torn # Absent /\ Images \cap {Torn, Absent} = {}
  /\ [loop : Images, object : Images \cup {Torn, Absent}, shared : Images \cup {Torn, Absent}]
       \cap {Torn, Absent} = {}

VARIABLES
  entry,       \* the directory a name is bound to
  content,     \* the files of each directory
  pc,          \* where each writer is
  image,       \* what its linker has read from kernel.o
  sums,        \* the checksums it has read back
  removing,    \* the directory its remove_all has opened
  listed,      \* the files it found there and has yet to remove
  handle,      \* the directory of the file it has open for writing
  rpc,         \* where each reader is
  manifest,    \* the manifest it has read
  library,     \* the shared object it has loaded
  calls,       \* history: how often each writer called create_aot_package
  published,   \* history: a call has returned, and no replacement was broken off since
  abandoned,   \* history: the processes whose last cleanup died or failed
  faults,      \* history: how often anything counted by MaxFaults has happened
  shortWrites  \* history: how often the end of a file was lost

fileVars == <<entry, content>>
writerVars == <<pc, image, sums, removing, listed, handle>>
readerVars == <<rpc, manifest, library>>
history == <<calls, published, abandoned, faults, shortWrites>>
vars == <<fileVars, writerVars, readerVars, history>>

NoFiles == [f \in Files |-> Absent]
ManifestOf(l, object, shared) == [loop |-> l, object |-> object, shared |-> shared]
PackageOf(l) == [object |-> l, loop |-> l, shared |-> l, manifest |-> ManifestOf(l, l, l)]
NoSums == [object |-> Absent, shared |-> Absent]
NoManifest == ManifestOf(Absent, Absent, Absent)

(* Mutant: the package is built in place.                                  *)
BuildInPlace(w) == Published

(* temporary: path + ".tmp-" + getpid().                                   *)
Temporary(w) == Process[w]

(* What a call finds under a name: no files when there is no directory. *)
Lookup(name) == IF entry[name] = NoDirectory THEN NoFiles ELSE content[entry[name]]

(* At first there is no package under the path, or an imported one. *)
Init ==
  /\ \E initial \in {NoFiles} \cup {PackageOf(l) : l \in Imports} :
       /\ content = [d \in Directories |-> IF d = 1 THEN initial ELSE NoFiles]
       /\ entry = [n \in Names |-> IF n = Published /\ initial # NoFiles THEN 1 ELSE NoDirectory]
  /\ pc = [w \in Writers |-> "idle"]
  /\ image = [w \in Writers |-> Absent]
  /\ sums = [w \in Writers |-> NoSums]
  /\ removing = [w \in Writers |-> NoDirectory]
  /\ listed = [w \in Writers |-> {}]
  /\ handle = [w \in Writers |-> NoDirectory]
  /\ rpc = [r \in Readers |-> "idle"]
  /\ manifest = [r \in Readers |-> NoManifest]
  /\ library = [r \in Readers |-> Absent]
  /\ calls = [w \in Writers |-> 0]
  /\ published = FALSE
  /\ abandoned = {}
  /\ faults = 0
  /\ shortWrites = 0

WriterMoves(w, from, to) ==
  /\ pc[w] = from
  /\ pc' = [pc EXCEPT ![w] = to]

Fault == faults < MaxFaults /\ faults' = faults + 1

(* The old package is going or gone, and the new one is not there yet.     *)
Replacing(w) ==
  \/ pc[w] = "replace" /\ removing[w] # NoDirectory /\ removing[w] = entry[Published]
  \/ pc[w] = "rename" /\ Lookup(Published) = NoFiles

(* The end of a call, by return or by an exception. *)
EndCall(w) ==
  /\ pc' = [pc EXCEPT ![w] = "idle"]
  /\ image' = [image EXCEPT ![w] = Absent]
  /\ sums' = [sums EXCEPT ![w] = NoSums]
  /\ removing' = [removing EXCEPT ![w] = NoDirectory]
  /\ listed' = [listed EXCEPT ![w] = {}]
  /\ handle' = [handle EXCEPT ![w] = NoDirectory]

(* Mutant: there is no catch clause.                                       *)
ThrowUncaught(w) == EndCall(w) /\ UNCHANGED published

(* An exception inside the try block leads to the catch clause. *)
Throw(w) ==
  /\ pc' = [pc EXCEPT ![w] = "cleanup"]
  /\ removing' = [removing EXCEPT ![w] = NoDirectory]
  /\ listed' = [listed EXCEPT ![w] = {}]
  /\ handle' = [handle EXCEPT ![w] = NoDirectory]
  /\ published' = (published /\ ~ Replacing(w))
  /\ UNCHANGED <<image, sums>>

-----------------------------------------------------------------------------
(* create_aot_package.                                                     *)

Compile(w) ==
  /\ FoldFunction(+, 0, calls) < MaxCalls
  /\ calls' = [calls EXCEPT ![w] = @ + 1]
  /\ WriterMoves(w, "idle", "clear")
  /\ UNCHANGED <<fileVars, image, sums, removing, listed, handle, readerVars,
                 published, abandoned, faults, shortWrites>>

(* Mutant: the catch clause removes the package, not the temporary.        *)
RemovedPath(w) == IF pc[w] = "clear" THEN Temporary(w) ELSE Published

(* remove_all is called in three places: which name, and what follows.     *)
Removed(w) == IF pc[w] = "replace" THEN Published ELSE Temporary(w)
AfterRemoval(w) ==
  CASE pc[w] = "clear" -> "create"
    [] pc[w] = "replace" -> "rename"
    [] pc[w] = "cleanup" -> "rethrow"
IsRemoving(w) == pc[w] \in {"clear", "replace", "cleanup"}

(* The temporary directory is gone: whatever an earlier call has left.     *)
StillAbandoned(w) == IF pc[w] = "replace" THEN abandoned ELSE abandoned \ {Process[w]}

RemoveNothing(w) ==
  /\ IsRemoving(w) /\ removing[w] = NoDirectory
  /\ entry[Removed(w)] = NoDirectory
  /\ WriterMoves(w, pc[w], AfterRemoval(w))
  /\ abandoned' = StillAbandoned(w)
  /\ UNCHANGED <<fileVars, image, sums, removing, listed, handle, readerVars,
                 calls, published, faults, shortWrites>>

PresentIn(d) == {f \in Files : content[d][f] # Absent}

OpenForRemoval(w) ==
  /\ IsRemoving(w) /\ removing[w] = NoDirectory
  /\ entry[Removed(w)] # NoDirectory
  /\ removing' = [removing EXCEPT ![w] = entry[Removed(w)]]
  /\ listed' = [listed EXCEPT ![w] = PresentIn(entry[Removed(w)])]
  /\ UNCHANGED <<fileVars, pc, image, sums, handle, readerVars, history>>

(* The files go one by one, in whatever order the directory lists them; a  *)
(* file that is made meanwhile may be seen or missed.  What is written to  *)
(* an open file after it was unlinked is lost.                             *)
RemoveEntry(w, f) ==
  /\ removing[w] # NoDirectory
  /\ content[removing[w]][f] # Absent
  /\ content' = [content EXCEPT ![removing[w]][f] = Absent]
  /\ listed' = [listed EXCEPT ![w] = @ \ {f}]
  /\ handle' = [v \in Writers |->
       IF handle[v] = removing[w] /\ pc[v] = f THEN Unlinked ELSE handle[v]]
  /\ UNCHANGED <<entry, pc, image, sums, removing, readerVars, history>>

(* Of the three calls of remove_all only one is inside the try block.      *)
RemovalThrows(w) ==
  IF pc[w] = "replace" THEN Throw(w) ELSE EndCall(w) /\ UNCHANGED published

(* rmdir, by name, once what was listed is gone: it fails when somebody    *)
(* has put files there meanwhile.                                          *)
RemoveDirectory(w) ==
  /\ removing[w] # NoDirectory
  /\ PresentIn(removing[w]) \cap listed[w] = {}
  /\ IF Lookup(Removed(w)) = NoFiles
       THEN /\ entry' = [entry EXCEPT ![Removed(w)] = NoDirectory]
            /\ WriterMoves(w, pc[w], AfterRemoval(w))
            /\ removing' = [removing EXCEPT ![w] = NoDirectory]
            /\ listed' = [listed EXCEPT ![w] = {}]
            /\ abandoned' = StillAbandoned(w)
            /\ UNCHANGED <<image, sums, handle, published>>
       ELSE /\ RemovalThrows(w)
            /\ UNCHANGED <<entry, abandoned>>
  /\ UNCHANGED <<content, readerVars, calls, faults, shortWrites>>

(* The directory cannot be opened, or one of its files or itself not be    *)
(* removed: remove_all throws, wherever it has got to.                     *)
RemovalFails(w) ==
  /\ IsRemoving(w)
  /\ Fault
  /\ RemovalThrows(w)
  /\ abandoned' = IF pc[w] = "cleanup" THEN abandoned \cup {Process[w]} ELSE abandoned
  /\ UNCHANGED <<fileVars, readerVars, calls, shortWrites>>

InUse == {entry[n] : n \in Names} \cup {removing[w] : w \in Writers}
         \cup {handle[w] : w \in Writers}
FreshDirectory == CHOOSE d \in Directories : d \notin InUse

(* create_directories: nothing to do when the name exists. *)
CreateTemporary(w) ==
  /\ WriterMoves(w, "create", "object")
  /\ entry' = IF entry[Temporary(w)] # NoDirectory THEN entry
              ELSE [entry EXCEPT ![Temporary(w)] = FreshDirectory]
  /\ content' = IF entry[Temporary(w)] # NoDirectory THEN content
                ELSE [content EXCEPT ![FreshDirectory] = NoFiles]
  /\ UNCHANGED <<image, sums, removing, listed, handle, readerVars, history>>

(* It fails outside the try block, and has made nothing.                   *)
CreateFails(w) ==
  /\ pc[w] = "create"
  /\ EndCall(w)
  /\ UNCHANGED <<fileVars, readerVars, history>>

(* The file each write is about, what it holds, and what follows it.       *)
Data(w) ==
  CASE pc[w] \in {"object", "loop"} -> Argument[w]
    [] pc[w] = "shared" -> image[w]
    [] pc[w] = "manifest" -> ManifestOf(Argument[w], sums[w].object, sums[w].shared)
AfterWrite ==
  [object |-> "loop", loop |-> "link", shared |-> "sum object", manifest |-> "replace"]

(* An output stream, or the linker's: the file is created or truncated.    *)
OpenFile(w) ==
  LET d == entry[Temporary(w)] IN
  /\ pc[w] \in Files /\ handle[w] = NoDirectory
  /\ d # NoDirectory
  /\ content' = [content EXCEPT ![d][pc[w]] = Torn]
  /\ handle' = [handle EXCEPT ![w] = d]
  /\ UNCHANGED <<entry, pc, image, sums, removing, listed, readerVars, history>>

WriteFile(w) ==
  /\ pc[w] \in Files /\ handle[w] # NoDirectory
  /\ content' = IF handle[w] = Unlinked THEN content
                ELSE [content EXCEPT ![handle[w]][pc[w]] = Data(w)]
  /\ handle' = [handle EXCEPT ![w] = NoDirectory]
  /\ WriterMoves(w, pc[w], AfterWrite[pc[w]])
  /\ UNCHANGED <<entry, image, sums, removing, listed, readerVars, history>>

(* write_text and write_bytes test the stream before it is flushed, so a   *)
(* short write of the last buffer is not noticed.  The linker notices.     *)
WriteShort(w) ==
  /\ pc[w] \in Files \ {"shared"} /\ handle[w] # NoDirectory
  /\ Fault
  /\ shortWrites' = shortWrites + 1
  /\ handle' = [handle EXCEPT ![w] = NoDirectory]
  /\ WriterMoves(w, pc[w], AfterWrite[pc[w]])
  /\ UNCHANGED <<fileVars, image, sums, removing, listed, readerVars,
                 calls, published, abandoned>>

(* link_shared_object: the linker reads kernel.o, then writes kernel.so.   *)
Link(w) ==
  LET object == Lookup(Temporary(w)).object IN
  /\ object \notin {Absent, Torn}
  /\ WriterMoves(w, "link", "shared")
  /\ image' = [image EXCEPT ![w] = object]
  /\ UNCHANGED <<fileVars, sums, removing, listed, handle, readerVars, history>>

(* checksum(read_text(...)) of kernel.o and of kernel.so.                  *)
Checksum(w, f, from, to) ==
  /\ Lookup(Temporary(w))[f] # Absent
  /\ WriterMoves(w, from, to)
  /\ sums' = [sums EXCEPT ![w][f] = Lookup(Temporary(w))[f]]
  /\ UNCHANGED <<fileVars, image, removing, listed, handle, readerVars, history>>

(* A file cannot be opened, written, linked or read back.                  *)
Fail(w) ==
  /\ pc[w] \in Files \cup {"link", "sum object", "sum shared"}
  /\ Throw(w)
  /\ UNCHANGED <<fileVars, readerVars, calls, abandoned, faults, shortWrites>>

(* rename replaces an empty directory, but not one with files.             *)
RenameIsPossible(w) == entry[Temporary(w)] # NoDirectory /\ Lookup(Published) = NoFiles

Rename(w) ==
  /\ pc[w] = "rename"
  /\ RenameIsPossible(w)
  /\ entry' = [entry EXCEPT ![Published] = entry[Temporary(w)], ![Temporary(w)] = NoDirectory]
  /\ published' = TRUE
  /\ EndCall(w)
  /\ UNCHANGED <<content, readerVars, calls, abandoned, faults, shortWrites>>

(* Another writer has taken the name, or the call fails by itself.         *)
RenameFails(w) ==
  /\ pc[w] = "rename"
  /\ IF RenameIsPossible(w) THEN Fault ELSE UNCHANGED faults
  /\ Throw(w)
  /\ UNCHANGED <<fileVars, readerVars, calls, abandoned, shortWrites>>

Rethrow(w) ==
  /\ pc[w] = "rethrow"
  /\ EndCall(w)
  /\ UNCHANGED <<fileVars, readerVars, history>>

(* A process dies, with all its threads; its identifier may be used again. *)
Crash(p) ==
  LET dead == {w \in Writers : Process[w] = p}
      Reset(var, value) == [w \in Writers |-> IF w \in dead THEN value ELSE var[w]]
  IN
  /\ \E w \in dead : pc[w] # "idle"
  /\ pc' = Reset(pc, "idle")
  /\ image' = Reset(image, Absent)
  /\ sums' = Reset(sums, NoSums)
  /\ removing' = Reset(removing, NoDirectory)
  /\ listed' = Reset(listed, {})
  /\ handle' = Reset(handle, NoDirectory)
  /\ Fault
  /\ published' = (published /\ \A w \in dead : ~ Replacing(w))
  /\ abandoned' = abandoned \cup {p}
  /\ UNCHANGED <<fileVars, readerVars, calls, shortWrites>>

Create(w) ==
  \/ Compile(w)
  \/ RemoveNothing(w)
  \/ OpenForRemoval(w)
  \/ \E f \in Files : RemoveEntry(w, f)
  \/ RemoveDirectory(w)
  \/ RemovalFails(w)
  \/ CreateTemporary(w)
  \/ CreateFails(w)
  \/ OpenFile(w)
  \/ WriteFile(w)
  \/ WriteShort(w)
  \/ Link(w)
  \/ Checksum(w, "object", "sum object", "sum shared")
  \/ Checksum(w, "shared", "sum shared", "manifest")
  \/ Fail(w)
  \/ Rename(w)
  \/ RenameFails(w)
  \/ Rethrow(w)

-----------------------------------------------------------------------------
(* benchmark_aot_package.  Every file is looked up by name when it is read.*)

ReaderMoves(r, from, to) ==
  /\ rpc[r] = from
  /\ rpc' = [rpc EXCEPT ![r] = to]

(* AOTManifest::parse and validate_host. *)
ReadManifest(r) ==
  LET found == Lookup(Published).manifest IN
  /\ found \notin {Absent, Torn}
  /\ Target[found.loop] = Host
  /\ ReaderMoves(r, "idle", "loop")
  /\ manifest' = [manifest EXCEPT ![r] = found]
  /\ UNCHANGED <<fileVars, writerVars, library, history>>

(* validate_package_files, one file at a time: the checksums must agree.   *)
Validate(r, f, from, to) ==
  /\ ReaderMoves(r, from, to)
  /\ Lookup(Published)[f] = manifest[r][f]
  /\ UNCHANGED <<fileVars, writerVars, manifest, library, history>>

(* Mutant: the checksums are trusted, and the embedded metadata not read.  *)
LoadTrusting(r) ==
  LET found == Lookup(Published).shared IN
  /\ ReaderMoves(r, "load", "invoke")
  /\ found \in Images
  /\ library' = [library EXCEPT ![r] = found]
  /\ UNCHANGED <<fileVars, writerVars, manifest, history>>

(* dlopen, by name once more, and validate_embedded_metadata.              *)
Load(r) ==
  LET found == Lookup(Published).shared IN
  /\ ReaderMoves(r, "load", "invoke")
  /\ found \in Images
  /\ Shape[found] = Shape[manifest[r].loop] /\ Target[found] = Target[manifest[r].loop]
  /\ library' = [library EXCEPT ![r] = found]
  /\ UNCHANGED <<fileVars, writerVars, manifest, history>>

(* The call ends: the kernel has run, or a file did not pass.              *)
EndRead(r) ==
  /\ rpc[r] # "idle"
  /\ rpc' = [rpc EXCEPT ![r] = "idle"]
  /\ manifest' = [manifest EXCEPT ![r] = NoManifest]
  /\ library' = [library EXCEPT ![r] = Absent]
  /\ UNCHANGED <<fileVars, writerVars, history>>

Read(r) ==
  \/ ReadManifest(r)
  \/ Validate(r, "loop", "loop", "object")
  \/ Validate(r, "object", "object", "shared")
  \/ Validate(r, "shared", "shared", "load")
  \/ Load(r)
  \/ EndRead(r)

Next ==
  \/ \E w \in Writers : Create(w)
  \/ \E p \in Processes : Crash(p)
  \/ \E r \in Readers : Read(r)

Spec == Init /\ [][Next]_vars

-----------------------------------------------------------------------------
(* Threads of one process that call use the same temporary name. *)
OneWriterPerProcess ==
  \A v, w \in Writers : Process[v] = Process[w] /\ calls[v] > 0 /\ calls[w] > 0 => v = w

(* Whatever the writers do between two of its reads, even in one process,  *)
(* with crashes and short writes: the kernel a reader calls was made whole *)
(* from the code of one loop, for this machine and for the very shape the  *)
(* reader has validated its input against.                                 *)
CalledForItsShape ==
  \A r \in Readers : rpc[r] = "invoke" =>
    /\ library[r] \in Images /\ Target[library[r]] = Host
    /\ Shape[library[r]] = Shape[manifest[r].loop]

(* The published directory never shows a torn file or files of two loops,  *)
(* wherever a writer is stopped, unless writers share a process or the     *)
(* disk loses the end of a file.                                           *)
PublishedIsConsistent ==
  OneWriterPerProcess /\ shortWrites = 0 =>
    \E l \in Images : \A f \in Files :
      Lookup(Published)[f] \in {PackageOf(l)[f], Absent}

(* Once a package has been published a whole one stays in place, except    *)
(* while a writer is between its remove_all and its rename, and after one  *)
(* was stopped just there, by its death or by an error of one of the two   *)
(* calls, until the next one succeeds.  Whatever dies or fails elsewhere,  *)
(* also in the catch clause, does not take the package away, and neither   *)
(* does a writer that loses the race.                                      *)
PublishedStays ==
  OneWriterPerProcess /\ shortWrites = 0 /\ published
    /\ (\A w \in Writers : pc[w] \notin {"replace", "rename"})
    => \E l \in Images : Lookup(Published) = PackageOf(l)

(* When the calls of a process have ended, well or with an exception, its  *)
(* temporary directory is gone, even when its threads have disturbed each  *)
(* other.  Only a death or an error of the catch clause's own remove_all   *)
(* leaves it, until a later call of that name has cleared it away.         *)
TemporariesRemoved ==
  \A p \in Processes \ abandoned :
    (\A w \in Writers : Process[w] = p => pc[w] = "idle") => entry[p] = NoDirectory

=============================================================================
