--------------------------------- MODULE Iso ---------------------------------
(***************************************************************************)
(* The shell's commands on the disc: the ISO 9660 reader of drivers/iso.c, *)
(* the ELF check of libraries/elf.c and the dispatch of kernel/kernel.c.   *)
(* Nobody looks at what atapi_read answers: a read that fails leaves its   *)
(* buffer as it was, and the buffers are locals nobody initialises, which  *)
(* hold what earlier lookups left on the stack.  A path is the sequence of *)
(* parts strsplit makes of it; an entry's name is what is left without the *)
(* version number.  detect_discs has found a drive; one disc is in it.     *)
(***************************************************************************)
EXTENDS Integers, Sequences, SequencesExt, FiniteSetsExt

CONSTANTS
    Extent,       \* sector -> the directory entries in it, in order
    Unended,      \* sectors so full that no zero follows their entries
    Root,         \* the root directory's entry
    PVD_sector,   \* where the volume descriptor is
    Signed,       \* where files begin that carry the ELF signature,
    LittleEndian, \* that have 1 for their byte order,
    ForX86,       \* and 3 for their machine
    SectorUnits,  \* pieces of a sector
    BufUnits,     \* pieces in the buffer of readfile: two sectors
    Paths         \* bound: the paths that are asked for

ASSUME IsoAssumption ==
    /\ SectorUnits \in Nat \ {0} /\ BufUnits \in Nat /\ BufUnits % SectorUnits = 0
    /\ Unended \subseteq DOMAIN Extent
    /\ \A p \in Paths : p \in Seq(ToSet(p))

\* ISO 9660: sector 0 is in the system area, a directory fills a sector at least,
\* and its name, which has no version number, is not given twice.
IsDirectory(d) == d.lba \in DOMAIN Extent /\ d.size \in Nat /\ d.size >= SectorUnits
ASSUME DiscAssumption ==
    /\ DOMAIN Extent \subseteq Nat \ {0} /\ IsDirectory(Root)
    /\ PVD_sector \in Nat \ {0} /\ PVD_sector \notin DOMAIN Extent
    /\ \A l \in DOMAIN Extent :
           /\ Extent[l] \in Seq(ToSet(Extent[l]))
           /\ \A e \in ToSet(Extent[l]) :
                  /\ e.lba \in Nat \ {0} /\ e.size \in Nat
                  /\ e.kind = "dir" => IsDirectory(e)
           /\ \A d, e \in ToSet(Extent[l]) :
                  d.kind = "dir" /\ e.kind = "dir" /\ d.name = e.name => d = e

VARIABLES
    volume,    \* "iso" or "other": whether the disc has a valid descriptor
    command, path,
    pc,        \* "prompt", "descriptor", "root", "directory", "last",
               \* "returned", "file", "resume" or "wild": a walk over memory
               \* that is no directory does not come back
    call,      \* which of the command's lookups this is
    depth,     \* parts of the path behind it
    current,   \* current_lba, or Junk: nobody can say
    pvd, buffer, \* the sectors that the locals hold, or Junk
    left,      \* the sectors that lookups before have left on the stack, at
               \* the one depth or the other they were called at
    answers,   \* what the lookups returned
    listing,   \* the entries list_items put into items
    target,    \* what file the memory at 0x400000 ("run") and the buffer of
               \* readfile hold, and whether all of it
    outcome,   \* what became of the command
    failed     \* history: the lookups during which a read failed

vars == <<volume, command, path, pc, call, depth, current, pvd, buffer, left,
          answers, listing, target, outcome, failed>>
asked == <<volume, command, path>>

Junk == 0
Missing == [lba |-> 0, size |-> 0]
\* What a walk may come upon in memory that is no directory: any numbers.
Stray == [lba |-> -1, size |-> -1]
Commands == {"discinfo", "findfile", "readfile", "list", "run"}
Old == [file |-> 0, whole |-> "yes"]

Init ==
    /\ volume \in {"iso", "other"} /\ command = "discinfo" /\ path = <<>>
    /\ pc = "prompt" /\ call = 0 /\ depth = 0 /\ current = Junk
    /\ pvd = Junk /\ buffer = Junk /\ left = {} /\ answers = <<>> /\ listing = <<>>
    /\ target = [c \in {"run", "readfile"} |-> Old] /\ outcome = "none" /\ failed = {}

(***************************************************************************)
(* Reading and walking a directory's first sector.                         *)
(***************************************************************************)
Failing(ok) == failed' = IF ok THEN failed ELSE failed \cup {call}

After(ok) == IF ok THEN current ELSE buffer

\* Junk may begin with a zero, which is the end of a directory.
In(b) == IF b = Junk THEN <<>> ELSE Extent[b]
Matches(b, name, kind) ==
    {k \in DOMAIN In(b) : In(b)[k].name = name /\ In(b)[k].kind = kind}
Hit(b, name, kind) == In(b)[Min(Matches(b, name, kind))]

\* What the walk does in memory that is no directory, nobody can say.
Endless(b) == b = Junk \/ b \in Unended
RunsOut(b, name, kind) == Endless(b) /\ Matches(b, name, kind) = {}

(***************************************************************************)
(* run_command.                                                            *)
(***************************************************************************)
Lookup(n) ==
    /\ call' = n /\ pc' = "descriptor" /\ depth' = 0 /\ current' = Junk
    /\ left' = (left \cup {pvd, buffer}) \ {Junk}
    /\ pvd' \in (left' \cap {PVD_sector}) \cup {Junk}
    /\ buffer' \in (left' \ {PVD_sector}) \cup {Junk}
lookup == <<call, depth, current, pvd, buffer, left>>

Enter(c, p) ==
    /\ pc = "prompt"
    /\ command' = c /\ path' = p
    /\ Lookup(1)
    /\ answers' = <<>> /\ listing' = <<>> /\ outcome' = "none" /\ failed' = {}
    /\ target' = [target EXCEPT !["readfile"] = Old]
    /\ UNCHANGED volume

Finish(o) == pc' = "prompt" /\ outcome' = o

(***************************************************************************)
(* get_pvd, and confirm_pvd for discinfo: no other command confirms it.    *)
(* Where the root is, is then what the local says.                         *)
(***************************************************************************)
Descriptor(ok) ==
    /\ pc = "descriptor" /\ Failing(ok)
    /\ \/ /\ command = "discinfo"
          /\ \E o \in IF ~ok THEN {"valid", "not valid"}
                      ELSE IF volume = "iso" THEN {"valid"} ELSE {"not valid"} :
                 Finish(o)
          /\ UNCHANGED <<current, pvd>>
       \/ /\ command # "discinfo"
          /\ pvd' = IF ~ok THEN pvd ELSE IF volume = "iso" THEN PVD_sector ELSE Junk
          /\ current' = IF pvd' = PVD_sector THEN Root.lba ELSE Junk
          /\ pc' = "root" /\ UNCHANGED outcome
    /\ UNCHANGED <<asked, call, depth, buffer, left, answers, listing, target>>

\* How many parts of the path are directories to go through.
Parents == IF command = "list" THEN Len(path) ELSE Len(path) - 1
Stage(d) == IF d < Parents THEN "directory" ELSE "last"
Onward == depth' = depth + 1 /\ pc' = Stage(depth + 1)

ReadRoot(ok) ==
    /\ pc = "root" /\ Failing(ok)
    /\ buffer' = After(ok) /\ pc' = Stage(depth)
    /\ UNCHANGED <<asked, call, depth, current, pvd, left, answers, listing, target, outcome>>

(***************************************************************************)
(* One part of the path.  list_items gives up when there is no directory   *)
(* of that name; get_lba_file goes on in the one it is in.                 *)
(***************************************************************************)
\* Mutant of NoSuchPart: list_items goes on as well.
NoSuchPartGoesOn == Onward /\ UNCHANGED <<current, outcome>>
NoSuchPart ==
    /\ IF command = "list"
       THEN Finish("no such directory") /\ UNCHANGED depth
       ELSE Onward /\ UNCHANGED outcome
    /\ UNCHANGED current

Descend(ok) ==
    /\ pc = "directory" /\ Failing(ok)
    /\ buffer' = After(ok)
    /\ LET part == path[depth + 1]
       IN  \/ /\ Matches(buffer', part, "dir") # {}
              /\ current' = Hit(buffer', part, "dir").lba
              /\ Onward /\ UNCHANGED outcome
           \/ Matches(buffer', part, "dir") = {} /\ NoSuchPart
           \/ /\ RunsOut(buffer', part, "dir")
              /\ \/ current' = Junk /\ Onward
                 \/ pc' = "wild" /\ UNCHANGED <<depth, current>>
              /\ UNCHANGED outcome
    /\ UNCHANGED <<asked, call, pvd, left, answers, listing, target>>

\* The end of get_lba_file.  For a path without parts it has taken the name from
\* before the array: any name, or no memory that it may read.
\* Mutant of Answer: a directory of that name will do.
AnswerAny(b) ==
    LET kind == IF Matches(b, Last(path), "dir") # {} THEN "dir" ELSE "file"
    IN  IF path = <<>> \/ Matches(b, Last(path), kind) = {} THEN Missing
        ELSE [lba |-> Hit(b, Last(path), kind).lba, size |-> Hit(b, Last(path), kind).size]
Answer(b) ==
    IF path = <<>> \/ Matches(b, Last(path), "file") = {} THEN Missing
    ELSE [lba |-> Hit(b, Last(path), "file").lba, size |-> Hit(b, Last(path), "file").size]

FindFile(ok) ==
    /\ pc = "last" /\ command # "list" /\ Failing(ok)
    /\ buffer' = After(ok)
    /\ \/ answers' = Append(answers, Answer(buffer')) /\ pc' = "returned"
       \/ /\ path # <<>> => RunsOut(buffer', Last(path), "file")
          /\ \/ answers' = Append(answers, Stray) /\ pc' = "returned"
             \/ pc' = "wild" /\ UNCHANGED answers
    /\ UNCHANGED <<asked, call, depth, current, pvd, left, listing, target, outcome>>

ListDirectory(ok) ==
    /\ pc = "last" /\ command = "list" /\ Failing(ok)
    /\ buffer' = After(ok)
    /\ \/ listing' = In(buffer') /\ Finish("listed")
       \/ /\ Endless(buffer') /\ UNCHANGED listing
          /\ \/ Finish("anything")
             \/ pc' = "wild" /\ UNCHANGED outcome
    /\ UNCHANGED <<asked, call, depth, current, pvd, left, answers, target>>

(***************************************************************************)
(* What the command does with the answer: findfile asks twice; read_file   *)
(* says a file is missing when both numbers are zero; `run` reads the      *)
(* file, confirm_elf reads it again, load_elf a third time.  A program     *)
(* that is no ELF is looked up once more (call 4), the answer dropped.     *)
(***************************************************************************)
Found == Last(answers)

Returned ==
    /\ pc = "returned"
    /\ \/ /\ command = "findfile" /\ call = 1
          /\ Lookup(2) /\ UNCHANGED outcome
       \/ /\ command = "findfile" /\ call = 2
          /\ Finish(IF answers[1] = Stray THEN "anything"
                    ELSE IF answers[1].lba = 0 THEN "missing" ELSE "found")
          /\ UNCHANGED lookup
       \/ /\ command \in {"readfile", "run"} /\ Found # Missing /\ call # 4
          /\ pc' = "file" /\ UNCHANGED <<lookup, outcome>>
       \/ /\ command = "readfile" /\ Found = Missing
          /\ Finish("missing") /\ UNCHANGED lookup
       \/ /\ command = "run" /\ Found = Missing /\ call \in {1, 3}
          /\ Finish(IF call = 1 THEN "missing" ELSE "null")
          /\ UNCHANGED lookup
       \/ /\ command = "run" /\ Found = Missing /\ call = 2
          /\ Lookup(4) /\ UNCHANGED outcome
       \/ /\ command = "run" /\ call = 4
          /\ Finish("flat") /\ UNCHANGED lookup
    /\ UNCHANGED <<asked, answers, listing, target, failed>>

\* Mutant of FileSectors: a sector more for a size that needs no rounding.
FileSectorsMore(size) == (size + SectorUnits) \div SectorUnits
FileSectors(size) == (size + SectorUnits - 1) \div SectorUnits

\* The file's sectors are read to where the last file's are: all of them, or as
\* many as came before the failure.  Stray numbers may overwrite anything.
ReadFile(ok) ==
    /\ pc = "file" /\ Failing(ok)
    /\ LET all == [file |-> Found.lba, whole |-> "yes"]
           some == [file |-> Found.lba, whole |-> "no"]
           sectors == FileSectors(Found.size)
           before == target[command]
       IN  \E now \in IF Found = Stray THEN {before, some}
                       ELSE IF sectors = 0 THEN {before}
                       ELSE IF ok THEN {all}
                       ELSE IF sectors = 1 \/ before = all THEN {before}
                       ELSE {before, some} :
               target' = [target EXCEPT ![command] = now]
    /\ pc' \in IF Found = Stray THEN {"resume", "wild"} ELSE {"resume"}
    /\ UNCHANGED <<asked, lookup, answers, listing, outcome>>

(***************************************************************************)
(* readfile prints its buffer up to the first zero, `run` decides by the   *)
(* ELF signature what to jump to.                                          *)
(***************************************************************************)
Piece(u) ==
    IF target["readfile"] # [file |-> Found.lba, whole |-> "yes"] THEN "junk"
    ELSE IF u < Found.size THEN "file"
    ELSE IF u < FileSectors(Found.size) * SectorUnits THEN "zero" ELSE "junk"
Printed == {u \in 0 .. BufUnits - 1 : \A v \in 0 .. u : Piece(v) # "zero"}

Show ==
    /\ pc = "resume" /\ command = "readfile"
    /\ \/ Found = Stray /\ Finish("anything")
       \/ Found # Stray /\ FileSectors(Found.size) * SectorUnits <= BufUnits /\ Finish("printed")
       \/ /\ Found # Stray /\ FileSectors(Found.size) * SectorUnits > BufUnits
          /\ pc' = "wild" /\ UNCHANGED outcome
    /\ UNCHANGED <<asked, lookup, answers, listing, target, failed>>

\* confirm_elf; memory that is of no file may pass for one.
\* Mutant of IsElf: none is.
IsElfNever == {FALSE}
IsElf ==
    LET file == target["run"].file
    IN  IF file \in {Old.file, Stray.lba} THEN BOOLEAN
        ELSE {(file \in Signed \cap LittleEndian \cap ForX86)}

Run ==
    /\ pc = "resume" /\ command = "run"
    /\ \/ call = 1 /\ Lookup(2) /\ UNCHANGED outcome
       \/ call = 2 /\ TRUE \in IsElf /\ Lookup(3) /\ UNCHANGED outcome
       \/ call = 2 /\ FALSE \in IsElf /\ Lookup(4) /\ UNCHANGED outcome
       \/ /\ call = 3
          /\ \/ TRUE \in IsElf /\ Finish("undefined")
             \/ FALSE \in IsElf /\ Finish("null")
          /\ UNCHANGED lookup
    /\ UNCHANGED <<asked, answers, listing, target, failed>>

Next ==
    \/ \E c \in Commands, p \in Paths : Enter(c, p)
    \/ \E ok \in BOOLEAN :
           \/ Descriptor(ok) \/ ReadRoot(ok) \/ Descend(ok) \/ FindFile(ok)
           \/ ListDirectory(ok) \/ ReadFile(ok)
    \/ Returned \/ Show \/ Run

Spec == Init /\ [][Next]_vars

(***************************************************************************)
(* What a path names on the disc.  Only the first sector of a directory is *)
(* ever read, so that what is in the later ones is named by no path here.  *)
(***************************************************************************)
FirstEntries(dir) == ToSet(Extent[dir.lba])

Named(entries, name, kind) == {e \in entries : e.name = name /\ e.kind = kind}

\* Where the first n parts of p lead from some directories, by steps of a kind:
\* into a directory of that name; or, if some parts only are followed, into one or
\* nowhere.
Dirs == {Root} \cup {e \in UNION {ToSet(Extent[l]) : l \in DOMAIN Extent} : e.kind = "dir"}
Ways(p, n, from, Steps(_, _)) ==
    {w \in [0 .. n -> Dirs] :
        w[0] \in from /\ \A k \in 1 .. n : w[k] \in Steps(w[k - 1], p[k])}

IntoFirst(d, part) == Named(FirstEntries(d), part, "dir")
IntoOrStay(d, part) == IntoFirst(d, part) \cup {d}

FirstDirectories(p, n) == {w[n] : w \in Ways(p, n, {Root}, IntoFirst)}
Passed(p, n, from) == {w[n] : w \in Ways(p, n, from, IntoOrStay)}

FilesIn(entries) == Named(entries, Last(path), "file")
FirstFiles == UNION {FilesIn(FirstEntries(d)) : d \in FirstDirectories(path, Parents)}

\* The path's directories are there, each in the first sector of its parent.
Reached == volume = "iso" /\ Parents >= 0 /\ FirstDirectories(path, Parents) # {}

\* Where a walk may run out of directories although every read goes well: a disc
\* without a descriptor, a path without parts, a full sector on the way.
Doubtful ==
    \/ volume = "other" \/ Parents < 0
    \/ \E d \in Passed(path, Parents, {Root}) : d.lba \in Unended

\* The directories in whose first sectors lookups before have ended.
LeftDirectories == {d \in Dirs : d.lba \in left}

IsAnswer(a, e) == a.lba = e.lba /\ a.size = e.size
Done == pc = "prompt" /\ outcome # "none"
Strayed ==
    \/ pc = "wild" \/ \E k \in DOMAIN answers : answers[k] = Stray
    \/ Done /\ outcome = "anything"
    \/ Done /\ command # "discinfo" /\ current = Junk

(***************************************************************************)
(* Properties.                                                             *)
(***************************************************************************)
TypeOK ==
    /\ pc \in {"prompt", "descriptor", "root", "directory", "last", "returned",
               "file", "resume", "wild"}
    /\ command \in Commands /\ path \in Paths \cup {<<>>} /\ call \in 0 .. 4
    /\ depth \in 0 .. Len(path) /\ current \in DOMAIN Extent \cup {Junk}
    /\ pvd \in {PVD_sector, Junk} /\ buffer \in DOMAIN Extent \cup {Junk}
    /\ left \subseteq DOMAIN Extent \cup {PVD_sector}
    /\ Len(answers) <= 3 /\ failed \subseteq 1 .. 4
    /\ outcome \in {"none", "valid", "not valid", "no such directory", "listed", "missing",
                    "found", "printed", "flat", "null", "undefined", "anything"}

\* Without a failed read, a file asked for by directories that are there, each in
\* the first sector of its parent, is the file of that path, and is missing only
\* if that directory's first sector does not have it.
FindsTheFile ==
    Done /\ command = "findfile" /\ failed = {} /\ Reached =>
        IF outcome = "found" THEN \E e \in FirstFiles : IsAnswer(Found, e)
        ELSE FirstFiles = {}

\* A lookup that returns a file has its name from the path, and has it out of the
\* root or a directory that some of the path's parts lead to.  Only if a read of
\* its own failed can it be out of the directory in which a lookup before ended,
\* or one that parts of the path lead to from there: the buffer still held it.
NeverAStranger ==
    pc = "returned" /\ Found \notin {Missing, Stray} =>
        \E d \in Passed(path, Parents, {Root} \cup IF call \in failed THEN LeftDirectories ELSE {}) :
            \E e \in FilesIn(FirstEntries(d)) : IsAnswer(Found, e)

\* findfile takes the address from one lookup and the size from another: they
\* are of one file unless a read failed or the walk is doubtful.
OneFileFound ==
    Done /\ command = "findfile" /\ answers[1] # answers[2] => failed # {} \/ Doubtful

\* list shows the first sector of the directory asked for, however many it has,
\* and says there is none only if a part of the path is not in the first sector of
\* the directory before it, although the disc may have it in the next: all this
\* unless a read failed.
ListsTheDirectory ==
    Done /\ command = "list" /\ failed = {} /\ volume = "iso" =>
        LET directories == FirstDirectories(path, Parents)
        IN  /\ outcome = "no such directory" => directories = {}
            /\ outcome = "listed" /\ (directories # {} \/ ~Doubtful) =>
                   \E d \in directories : listing = Extent[d.lba]

\* readfile shows the file of the path and no more if no read failed, the path's
\* directories are there, the file fits, and it does not end with its last sector:
\* nothing else puts a zero behind it.
PrintsTheFile ==
    Done /\ outcome = "printed" /\ failed = {} /\ Reached /\ Found.size % SectorUnits # 0 =>
        /\ \E e \in FirstFiles : IsAnswer(Found, e)
        /\ Printed = 0 .. Found.size - 1

\* Where the path's directories are there, what runs flat is its file, whatever ran
\* before, although every error is ignored, as long as the second time it is looked
\* up and read goes well and it is not empty: that repairs a failure of the first.
\* If there is no such file, nothing runs unless the first lookup failed or ran out
\* of a full directory.
RunsTheProgram ==
    Done /\ outcome = "flat" /\ 2 \notin failed /\ Reached =>
        /\ FirstFiles = {} => 1 \in failed \/ Doubtful
        /\ FirstFiles # {} =>
               \E e \in FirstFiles :
                   /\ IsAnswer(answers[2], e)
                   /\ e.size > 0 => target["run"] = [file |-> e.lba, whole |-> "yes"]

\* A file with the ELF signature, of the byte order and for the machine that
\* confirm_elf looks for, is never run as a flat program unless a read failed or
\* the walk is doubtful.
NoElfRunsFlat ==
    Done /\ outcome = "flat" /\ failed = {} /\ ~Doubtful /\ Found.size > 0 =>
        Found.lba \notin Signed \cap LittleEndian \cap ForX86

\* What a lookup answers, of the file it is asked for, with failures and missing
\* directories and without.
LookupsHold == TypeOK /\ FindsTheFile /\ NeverAStranger /\ OneFileFound

\* What list and readfile put on the screen, of the directory and the file asked for.
ShowsWhatIsThere == ListsTheDirectory /\ PrintsTheFile

\* What `run` jumps to: the program of the path where its directories are there, and
\* none that confirm_elf accepts, under the conditions the two parts name.
RunsWhatWasAsked == RunsTheProgram /\ NoElfRunsFlat

\* Memory that is no directory is walked, and whatever comes of it comes, only on
\* a disc without a descriptor, after a failed read, for a path without parts or
\* with a full sector on the way; a command does not come back, too, when a file is
\* larger than readfile's buffer.
WildOnlyFor ==
    Strayed =>
        \/ failed # {} \/ Doubtful
        \/ pc = "wild" /\ command = "readfile" /\ answers # <<>> /\ Found.size > BufUnits
==============================================================================
