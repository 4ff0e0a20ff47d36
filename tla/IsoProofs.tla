------------------------------ MODULE IsoProofs ------------------------------
(***************************************************************************)
(* Proofs about Iso, for every disc, every set of paths and every size of  *)
(* a sector and of readfile's buffer.  IIInv follows a lookup along the    *)
(* path: Passed says where it can be whatever fails, from the root and     *)
(* from what earlier lookups left, a walk where it is when nothing does.   *)
(***************************************************************************)
EXTENDS Iso, SequenceTheorems, WellFoundedInduction, TLAPS

(***************************************************************************)
(* Numbers, sectors and their entries.                                     *)
(***************************************************************************)

\* A set of numbers has a least one.
LEMMA Least ==
  ASSUME NEW T, T \subseteq Nat, T # {}
  PROVE  \E x \in T : \A y \in T : x <= y
<1> DEFINE R == {p \in Nat \X Nat : p[1] < p[2]}
<1>1. OpToRel(<, Nat) = R
  BY DEF OpToRel
<1>2. IsWellFoundedOn(R, Nat)
  BY <1>1, NatLessThanWellFounded
<1>3. ASSUME NEW x \in Nat, NEW y \in Nat, y < x PROVE <<y, x>> \in R
  BY <1>3
<1> HIDE DEF R
<1>4. PICK x \in T : \A y \in T : ~(<<y, x>> \in R)
  BY <1>2, WFMin
<1>5. ASSUME NEW y \in T PROVE x <= y
  <2>1. x \in Nat /\ y \in Nat
    OBVIOUS
  <2>2. ~(y < x)
    BY <1>3, <1>4, <2>1
  <2> QED
    BY <2>1, <2>2
<1> QED
  BY <1>5

\* Min, which community modules define by choice, is in its set.
LEMMA MinIsIn ==
  ASSUME NEW T, T \subseteq Nat, T # {}
  PROVE  Min(T) \in T
<1>1. \E x \in T : \A y \in T : x <= y
  BY Least
<1> QED
  BY <1>1 DEF Min

\* The entries of a sector are at the places of a sequence.
LEMMA SectorFacts ==
  ASSUME NEW l \in DOMAIN Extent
  PROVE  /\ l \in Nat \ {0} /\ l # Junk
         /\ DOMAIN Extent[l] \subseteq Nat
         /\ \A e : e \in ToSet(Extent[l]) <=> \E k \in DOMAIN Extent[l] : e = Extent[l][k]
         /\ \A e \in ToSet(Extent[l]) :
                /\ e.lba \in Nat \ {0} /\ e.size \in Nat
                /\ e.kind = "dir" => IsDirectory(e)
<1>1. l \in Nat \ {0} /\ l # Junk
  BY DiscAssumption DEF Junk
<1>2. Extent[l] \in Seq(ToSet(Extent[l]))
  BY DiscAssumption
<1>3. DOMAIN Extent[l] \subseteq Nat
  <2>1. ASSUME NEW S, NEW s \in Seq(S) PROVE DOMAIN s \subseteq Nat
    OBVIOUS
  <2> QED
    BY <1>2, <2>1
<1>4. \A e : e \in ToSet(Extent[l]) <=> \E k \in DOMAIN Extent[l] : e = Extent[l][k]
  BY DEF ToSet
<1>5. \A e \in ToSet(Extent[l]) :
          /\ e.lba \in Nat \ {0} /\ e.size \in Nat
          /\ e.kind = "dir" => IsDirectory(e)
  BY DiscAssumption
<1> QED
  BY <1>1, <1>3, <1>4, <1>5

\* A sector's entries are those in it; in other memory nothing matches for sure.
LEMMA InFacts ==
  /\ \A b \in DOMAIN Extent : In(b) = Extent[b]
  /\ \A name, kind : Matches(Junk, name, kind) = {}
<1>1. \A b \in DOMAIN Extent : In(b) = Extent[b]
  BY SectorFacts DEF In
<1>2. In(Junk) = <<>> /\ DOMAIN <<>> = {}
  BY DEF In
<1>3. \A name, kind : Matches(Junk, name, kind) = {}
  <2> SUFFICES ASSUME NEW name, NEW kind, NEW k \in Matches(Junk, name, kind) PROVE FALSE
    OBVIOUS
  <2>1. k \in DOMAIN In(Junk)
    BY DEF Matches
  <2> QED
    BY <1>2, <2>1
<1> QED
  BY <1>1, <1>3

\* Which entries match, as a set of entries.
LEMMA MatchesNamed ==
  ASSUME NEW b \in DOMAIN Extent, NEW name, NEW kind
  PROVE  Matches(b, name, kind) = {} <=> Named(ToSet(Extent[b]), name, kind) = {}
  BY SectorFacts, InFacts DEF Matches, Named

\* What is found is an entry of the sector, of that name and kind.
LEMMA HitNamed ==
  ASSUME NEW b \in DOMAIN Extent, NEW name, NEW kind, Matches(b, name, kind) # {}
  PROVE  /\ Hit(b, name, kind) \in Named(ToSet(Extent[b]), name, kind)
         /\ Hit(b, name, kind).lba \in Nat \ {0} /\ Hit(b, name, kind).size \in Nat
<1> DEFINE M == Matches(b, name, kind)
<1>1. M \subseteq Nat
  BY SectorFacts, InFacts DEF Matches
<1>2. Min(M) \in M
  <2> HIDE DEF M
  <2> QED
    BY <1>1, MinIsIn DEF M
<1>3. Hit(b, name, kind) = Extent[b][Min(M)]
  BY InFacts DEF Hit
<1>4. Hit(b, name, kind) \in Named(ToSet(Extent[b]), name, kind)
  <2>1. Min(M) \in DOMAIN Extent[b] /\ Extent[b][Min(M)].name = name
        /\ Extent[b][Min(M)].kind = kind
    BY <1>2, InFacts DEF Matches
  <2> QED
    BY <1>3, <2>1, SectorFacts DEF Named
<1> QED
  BY <1>4, SectorFacts DEF Named

\* What ISO 9660 says of a directory.
LEMMA DirsFacts ==
  ASSUME NEW d \in Dirs
  PROVE  d.lba \in DOMAIN Extent /\ d.size \in Nat /\ d.size >= SectorUnits
<1>1. IsDirectory(d)
  BY DiscAssumption, SectorFacts DEF Dirs
<1> QED
  BY <1>1 DEF IsDirectory

\* A directory found is one, and the only one of that name.
LEMMA HitDirectory ==
  ASSUME NEW b \in DOMAIN Extent, NEW name, Matches(b, name, "dir") # {}
  PROVE  /\ Hit(b, name, "dir") \in Dirs
         /\ Hit(b, name, "dir").lba \in DOMAIN Extent
         /\ \A e \in Named(ToSet(Extent[b]), name, "dir") : Hit(b, name, "dir") = e
<1> DEFINE h == Hit(b, name, "dir")
<1>1. h \in ToSet(Extent[b]) /\ h.name = name /\ h.kind = "dir"
  BY HitNamed DEF Named
<1>2. h \in Dirs
  BY <1>1 DEF Dirs
<1>3. ASSUME NEW e \in Named(ToSet(Extent[b]), name, "dir") PROVE h = e
  <2>1. e \in ToSet(Extent[b]) /\ e.name = name /\ e.kind = "dir"
    BY DEF Named
  <2> HIDE DEF h
  <2> QED
    BY <1>1, <2>1, DiscAssumption
<1> QED
  BY <1>2, <1>3, DirsFacts

(***************************************************************************)
(* Ways through the directories.                                           *)
(***************************************************************************)

\* A way goes on by one more step.
LEMMA PassedOn ==
  ASSUME NEW p, NEW from, NEW n \in Nat, NEW d \in Passed(p, n, from), NEW e \in Dirs,
         e \in IntoOrStay(d, p[n + 1])
  PROVE  e \in Passed(p, n + 1, from)
<1>1. PICK w \in Ways(p, n, from, IntoOrStay) : d = w[n]
  BY DEF Passed
<1>2. /\ w \in [0 .. n -> Dirs] /\ w[0] \in from
      /\ \A k \in 1 .. n : w[k] \in IntoOrStay(w[k - 1], p[k])
  BY <1>1 DEF Ways
<1> DEFINE v == [k \in 0 .. n + 1 |-> IF k = n + 1 THEN e ELSE w[k]]
<1>3. v \in [0 .. n + 1 -> Dirs]
  BY <1>2
<1>4. v[0] \in from
  BY <1>2
<1>5. ASSUME NEW k \in 1 .. n + 1 PROVE v[k] \in IntoOrStay(v[k - 1], p[k])
  <2>1. CASE k = n + 1
    <3>1. v[k] = e /\ k - 1 \in 0 .. n /\ k - 1 # n + 1 /\ k - 1 = n
      BY <2>1
    <3>2. v[k - 1] = d
      BY <1>1, <3>1
    <3> QED
      BY <2>1, <3>1, <3>2
  <2>2. CASE k # n + 1
    <3>1. k \in 1 .. n /\ k - 1 \in 0 .. n + 1 /\ k - 1 # n + 1 /\ k \in 0 .. n + 1
      BY <2>2
    <3>2. v[k] = w[k] /\ v[k - 1] = w[k - 1]
      BY <2>2, <3>1
    <3> QED
      BY <1>2, <3>1, <3>2
  <2> QED
    BY <2>1, <2>2
<1>6. v[n + 1] = e
  OBVIOUS
<1> HIDE DEF v
<1>7. v \in Ways(p, n + 1, from, IntoOrStay)
  BY <1>3, <1>4, <1>5 DEF Ways
<1> QED
  BY <1>6, <1>7 DEF Passed

\* A directory that was passed counts as passed further on: parts may be missing.
LEMMA PassedLater ==
  ASSUME NEW p, NEW from, NEW n \in Nat, NEW m \in Nat, n <= m, NEW d \in Passed(p, n, from)
  PROVE  d \in Dirs /\ d \in Passed(p, m, from)
<1>1. PICK w \in Ways(p, n, from, IntoOrStay) : d = w[n]
  BY DEF Passed
<1>2. /\ w \in [0 .. n -> Dirs] /\ w[0] \in from
      /\ \A k \in 1 .. n : w[k] \in IntoOrStay(w[k - 1], p[k])
  BY <1>1 DEF Ways
<1> DEFINE v == [k \in 0 .. m |-> IF k > n THEN d ELSE w[k]]
<1>3. n \in 0 .. n /\ d \in Dirs
  BY <1>1, <1>2
<1>4. v \in [0 .. m -> Dirs] /\ v[0] \in from
  BY <1>2, <1>3
<1>5. ASSUME NEW k \in 1 .. m PROVE v[k] \in IntoOrStay(v[k - 1], p[k])
  <2>1. k \in 0 .. m /\ k - 1 \in 0 .. m
    OBVIOUS
  <2>2. CASE k > n
    <3>1. v[k] = d
      BY <2>1, <2>2
    <3>2. k - 1 > n \/ k - 1 = n
      BY <2>2
    <3>3. v[k - 1] = d
      BY <1>1, <2>1, <3>2
    <3> QED
      BY <3>1, <3>3 DEF IntoOrStay
  <2>3. CASE ~(k > n)
    <3>1. k \in 1 .. n /\ ~(k - 1 > n)
      BY <2>3
    <3>2. v[k] = w[k] /\ v[k - 1] = w[k - 1]
      BY <2>1, <2>3, <3>1
    <3> QED
      BY <1>2, <3>1, <3>2
  <2> QED
    BY <2>2, <2>3
<1>6. v[m] = d
  <2>1. m \in 0 .. m /\ (m > n \/ m = n)
    OBVIOUS
  <2> QED
    BY <1>1, <2>1
<1> HIDE DEF v
<1>7. v \in Ways(p, m, from, IntoOrStay)
  BY <1>4, <1>5 DEF Ways
<1> QED
  BY <1>3, <1>6, <1>7 DEF Passed

\* Every way begins in one of the directories given; more of them, more ways.
LEMMA PassedStarts ==
  ASSUME NEW p, NEW from, NEW d \in Dirs, d \in from
  PROVE  d \in Passed(p, 0, from)
<1> DEFINE w == [k \in 0 .. 0 |-> d]
<1>1. w \in [0 .. 0 -> Dirs] /\ w[0] = d
  OBVIOUS
<1> HIDE DEF w
<1>2. w \in Ways(p, 0, from, IntoOrStay)
  BY <1>1 DEF Ways
<1> QED
  BY <1>1, <1>2 DEF Passed

LEMMA PassedMore ==
  ASSUME NEW p, NEW n, NEW from, NEW more, from \subseteq more
  PROVE  Passed(p, n, from) \subseteq Passed(p, n, more)
  BY DEF Passed, Ways

\* Division rounds down.
LEMMA DivFacts ==
    ASSUME NEW n \in Nat, NEW d \in Nat, d > 0
    PROVE  n \div d \in Nat /\ (n \div d) * d <= n /\ n < (n \div d) * d + d
  BY SMT

\* The same of the ways through first sectors.
LEMMA FirstOn ==
  ASSUME NEW p, NEW n \in Nat, NEW d \in FirstDirectories(p, n), NEW e \in Dirs,
         e \in IntoFirst(d, p[n + 1])
  PROVE  e \in FirstDirectories(p, n + 1)
<1>1. PICK w \in Ways(p, n, {Root}, IntoFirst) : d = w[n]
  BY DEF FirstDirectories
<1>2. /\ w \in [0 .. n -> Dirs] /\ w[0] = Root
      /\ \A k \in 1 .. n : w[k] \in IntoFirst(w[k - 1], p[k])
  BY <1>1 DEF Ways
<1> DEFINE v == [k \in 0 .. n + 1 |-> IF k = n + 1 THEN e ELSE w[k]]
<1>3. v \in [0 .. n + 1 -> Dirs]
  BY <1>2
<1>4. v[0] = Root
  BY <1>2
<1>5. ASSUME NEW k \in 1 .. n + 1 PROVE v[k] \in IntoFirst(v[k - 1], p[k])
  <2>1. CASE k = n + 1
    <3>1. v[k] = e /\ k - 1 \in 0 .. n /\ k - 1 # n + 1 /\ k - 1 = n
      BY <2>1
    <3>2. v[k - 1] = d
      BY <1>1, <3>1
    <3> QED
      BY <2>1, <3>1, <3>2
  <2>2. CASE k # n + 1
    <3>1. k \in 1 .. n /\ k - 1 \in 0 .. n + 1 /\ k - 1 # n + 1 /\ k \in 0 .. n + 1
      BY <2>2
    <3>2. v[k] = w[k] /\ v[k - 1] = w[k - 1]
      BY <2>2, <3>1
    <3> QED
      BY <1>2, <3>1, <3>2
  <2> QED
    BY <2>1, <2>2
<1>6. v[n + 1] = e
  OBVIOUS
<1> HIDE DEF v
<1>7. v \in Ways(p, n + 1, {Root}, IntoFirst)
  BY <1>3, <1>4, <1>5 DEF Ways
<1> QED
  BY <1>6, <1>7 DEF FirstDirectories

\* They begin at the root as well.
LEMMA FirstRoot == ASSUME NEW p PROVE Root \in FirstDirectories(p, 0)
<1> DEFINE w == [k \in 0 .. 0 |-> Root]
<1>1. w \in [0 .. 0 -> Dirs] /\ w[0] = Root
  BY DEF Dirs
<1> HIDE DEF w
<1>2. w \in Ways(p, 0, {Root}, IntoFirst)
  BY <1>1 DEF Ways
<1> QED
  BY <1>1, <1>2 DEF FirstDirectories

(***************************************************************************)
(* The walk get_lba_file makes when no read fails: into the directory of   *)
(* that name if there is one, else on where it is.                         *)
(***************************************************************************)
Goes(lba, part) ==
    IF Matches(lba, part, "dir") = {} THEN lba ELSE Hit(lba, part, "dir").lba
Walks(p, n) ==
    {w \in [0 .. n -> DOMAIN Extent] :
        w[0] = Root.lba /\ \A k \in 1 .. n : w[k] = Goes(w[k - 1], p[k])}

\* A step of the walk leads to a directory.
LEMMA GoesOn == ASSUME NEW l \in DOMAIN Extent, NEW part PROVE Goes(l, part) \in DOMAIN Extent
  BY HitDirectory DEF Goes

\* A walk goes on by one more part.
LEMMA WalkOn ==
  ASSUME NEW p, NEW n \in Nat, NEW w \in Walks(p, n)
  PROVE  Walks(p, n + 1) # {}
<1>1. /\ w \in [0 .. n -> DOMAIN Extent] /\ w[0] = Root.lba
      /\ \A k \in 1 .. n : w[k] = Goes(w[k - 1], p[k])
  BY DEF Walks
<1> DEFINE e == Goes(w[n], p[n + 1])
           v == [k \in 0 .. n + 1 |-> IF k = n + 1 THEN e ELSE w[k]]
<1>2. e \in DOMAIN Extent
  BY <1>1, GoesOn
<1> HIDE DEF e
<1>3. v \in [0 .. n + 1 -> DOMAIN Extent]
  BY <1>1, <1>2
<1>4. v[0] = Root.lba
  BY <1>1
<1>5. ASSUME NEW k \in 1 .. n + 1 PROVE v[k] = Goes(v[k - 1], p[k])
  <2>1. CASE k = n + 1
    <3>1. v[k] = e /\ k - 1 \in 0 .. n + 1 /\ k - 1 # n + 1 /\ k - 1 = n
      BY <2>1
    <3>2. v[k - 1] = w[n]
      BY <3>1
    <3> QED
      BY <2>1, <3>1, <3>2 DEF e
  <2>2. CASE k # n + 1
    <3>1. k \in 1 .. n /\ k - 1 \in 0 .. n + 1 /\ k - 1 # n + 1 /\ k \in 0 .. n + 1
      BY <2>2
    <3>2. v[k] = w[k] /\ v[k - 1] = w[k - 1]
      BY <2>2, <3>1
    <3> QED
      BY <1>1, <3>1, <3>2
  <2> QED
    BY <2>1, <2>2
<1> HIDE DEF v
<1> QED
  BY <1>3, <1>4, <1>5 DEF Walks

\* The walk that has not begun.
LEMMA WalkStarts == ASSUME NEW p PROVE Walks(p, 0) # {}
<1> DEFINE w == [k \in 0 .. 0 |-> Root.lba]
<1>1. w \in [0 .. 0 -> DOMAIN Extent] /\ w[0] = Root.lba
  BY DiscAssumption DEF IsDirectory
<1> HIDE DEF w
<1> QED
  BY <1>1 DEF Walks

\* There is a walk of every length: the least one there is none of would go on
\* from the one before it.
LEMMA WalkExists == ASSUME NEW p, NEW n \in Nat PROVE Walks(p, n) # {}
<1> DEFINE T == {k \in Nat : Walks(p, k) = {}}
<1> SUFFICES ASSUME T # {} PROVE FALSE
  OBVIOUS
<1>1. PICK k \in T : \A j \in T : k <= j
  <2>1. T \subseteq Nat
    OBVIOUS
  <2> HIDE DEF T
  <2> QED
    BY <2>1, Least
<1>2. k \in Nat /\ k # 0
  BY <1>1, WalkStarts
<1>3. k - 1 \in Nat /\ (k - 1) + 1 = k /\ k - 1 \notin T
  BY <1>1, <1>2
<1>4. PICK w : w \in Walks(p, k - 1)
  BY <1>3
<1>5. Walks(p, (k - 1) + 1) # {}
  BY <1>3, <1>4, WalkOn
<1> QED
  BY <1>1, <1>3, <1>5

\* A way through first sectors is a walk: each directory is the one of its name.
LEMMA WayWalks ==
  ASSUME NEW p, NEW n \in Nat, NEW d \in FirstDirectories(p, n)
  PROVE  \E v \in [0 .. n -> Dirs], w \in Walks(p, n) :
            /\ v[n] = d
            /\ \A k \in 0 .. n : w[k] = v[k].lba
            /\ \A k \in 1 .. n : v[k] \in IntoFirst(v[k - 1], p[k])
<1>1. PICK v \in Ways(p, n, {Root}, IntoFirst) : d = v[n]
  BY DEF FirstDirectories
<1>2. /\ v \in [0 .. n -> Dirs] /\ v[0] = Root
      /\ \A k \in 1 .. n : v[k] \in IntoFirst(v[k - 1], p[k])
  BY <1>1 DEF Ways
<1> DEFINE w == [k \in 0 .. n |-> v[k].lba]
<1>3. w \in [0 .. n -> DOMAIN Extent] /\ w[0] = Root.lba
  BY <1>2, DirsFacts
<1>4. ASSUME NEW k \in 1 .. n PROVE w[k] = Goes(w[k - 1], p[k])
  <2>1. k - 1 \in 0 .. n /\ k \in 0 .. n
    OBVIOUS
  <2>2. w[k - 1] = v[k - 1].lba /\ w[k] = v[k].lba /\ w[k - 1] \in DOMAIN Extent
    BY <2>1, <1>3
  <2>3. v[k] \in Named(ToSet(Extent[w[k - 1]]), p[k], "dir")
    BY <1>2, <2>2 DEF IntoFirst, FirstEntries
  <2>4. Matches(w[k - 1], p[k], "dir") # {}
    BY <2>2, <2>3, MatchesNamed
  <2>5. Hit(w[k - 1], p[k], "dir") = v[k]
    BY <2>2, <2>3, <2>4, HitDirectory
  <2> QED
    BY <2>2, <2>4, <2>5 DEF Goes
<1>5. \A k \in 0 .. n : w[k] = v[k].lba
  OBVIOUS
<1> HIDE DEF w
<1>6. w \in Walks(p, n)
  BY <1>3, <1>4 DEF Walks
<1> QED
  BY <1>1, <1>2, <1>5, <1>6

(***************************************************************************)
(* The inductive invariant.                                                *)
(***************************************************************************)
Walking == pc \in {"root", "directory", "last"}
Held == pc \in {"returned", "file", "resume"}
\* How many lookups this is: the fourth of `run` takes the place of the third.
Nth == IF call = 4 THEN 3 ELSE call
LookupOf(k) == IF k = 3 /\ call = 4 THEN 4 ELSE k

Reply == {Missing, Stray} \cup [lba : Nat \ {0}, size : Nat]
ValuesTyped ==
    /\ volume \in {"iso", "other"}
    /\ answers \in Seq(Reply)
    /\ target \in [{"run", "readfile"} -> [file : Nat \cup {Stray.lba}, whole : {"yes", "no"}]]

\* Which command can be in which call, and how much of the path and how many
\* answers it then has.
PlaceHolds ==
    /\ pc # "prompt" => call >= 1
    /\ command = "findfile" => call <= 2
    /\ command \in {"readfile", "list", "discinfo"} => call <= 1
    /\ pc = "descriptor" \/ Walking => Len(answers) = Nth - 1
    /\ Held => Len(answers) = Nth
    /\ Walking => command # "discinfo"
    /\ pc = "directory" => depth < Parents
    /\ pc = "last" => depth = IF Parents < 0 THEN 0 ELSE Parents
    /\ pc \in {"descriptor", "root"} => depth = 0
    /\ pc = "root" => current \in {Root.lba, Junk}
    /\ Held \/ answers # <<>> => command \in {"findfile", "readfile", "run"}
    /\ pc \in {"file", "resume"} => command \in {"readfile", "run"} /\ call # 4

\* Which command ends in which way.
EndHolds ==
    /\ outcome # "none" => pc = "prompt"
    /\ command = "list" => outcome \in {"none", "listed", "no such directory", "anything"}
    /\ command = "findfile" =>
           /\ outcome \in {"none", "found", "missing", "anything"}
           /\ outcome # "none" => Len(answers) = 2
           /\ outcome = "found" => answers[1] \notin {Missing, Stray}
           /\ outcome = "missing" => answers[1] = Missing
           /\ outcome = "anything" => answers[1] = Stray
    /\ outcome = "flat" => command = "run" /\ call = 4 /\ Len(answers) = 3
    /\ outcome = "printed" =>
           /\ command = "readfile" /\ call = 1 /\ Len(answers) = 1 /\ Found # Stray
           /\ FileSectors(Found.size) * SectorUnits <= BufUnits
    /\ outcome = "anything" /\ command # "list" => \E k \in DOMAIN answers : answers[k] = Stray

\* What is left on the stack are directories' first sectors, and the descriptor.
LeftHolds ==
    /\ \A l \in left \ {PVD_sector} : \E d \in Dirs : d.lba = l
    /\ buffer # Junk => \E d \in Dirs : d.lba = buffer
    /\ pc \in {"descriptor", "root"} /\ buffer # Junk => buffer \in left
    /\ volume = "other" => PVD_sector \notin left /\ pvd = Junk

\* Whatever fails, the directory and the buffer are of directories that some of
\* the parts so far lead to, from the root or, after a failure, from what was left.
From == {Root} \cup IF call \in failed THEN LeftDirectories ELSE {}
PassedHolds ==
    /\ Walking /\ current # Junk => \E d \in Passed(path, depth, From) : d.lba = current
    /\ pc \in {"directory", "last"} /\ buffer # Junk =>
           \E d \in Passed(path, depth, From) : d.lba = buffer
    /\ NeverAStranger

\* Where the walk cannot run out of directories, a lookup of which no read fails is
\* where the walk along the path is, and answers what the walk's end has.
Clear == Reached \/ ~Doubtful
OnTheWalk == current # Junk /\ \A w \in Walks(path, Parents) : w[depth] = current
WalkHolds == Clear /\ Walking /\ call \notin failed => OnTheWalk

AnswersWalk(k) ==
    \A w \in Walks(path, Parents) :
        \/ answers[k] = Answer(w[Parents])
        \/ answers[k] = Stray /\ Answer(w[Parents]) = Missing /\ Doubtful
AnswersHold ==
    \A k \in DOMAIN answers : LookupOf(k) \notin failed =>
        /\ Clear => AnswersWalk(k)
        /\ answers[k] = Stray => Doubtful

\* Only a failed read and a doubtful walk lead astray.
StrayHolds ==
    /\ command # "discinfo" /\ pc \notin {"descriptor", "wild"} /\ current = Junk =>
           call \in failed \/ Doubtful
    /\ WildOnlyFor

\* list goes on in the directory of that name only.
ListHolds ==
    /\ command = "list" /\ failed = {} /\ ~Doubtful /\ Walking =>
           \E d \in FirstDirectories(path, depth) : d.lba = current
    /\ ListsTheDirectory

\* `run` goes on only with a file; its second lookup, if it goes well, decides what
\* is in memory, and whether that is run as flat code.
RunHolds ==
    /\ command = "run" /\ (call >= 2 \/ pc \in {"file", "resume"}) => answers[1] # Missing
    /\ command = "run" /\ (call = 4 \/ (call = 2 /\ pc = "resume"))
               /\ 2 \notin failed /\ answers[2].size > 0 =>
           /\ target["run"] = [file |-> answers[2].lba, whole |-> "yes"]
           /\ call = 4 => answers[2].lba \notin Signed \cap LittleEndian \cap ForX86

PrintHolds ==
    command = "readfile" /\ failed = {} /\ (pc = "resume" \/ outcome = "printed")
            /\ Found.size > 0 =>
        target["readfile"] = [file |-> Found.lba, whole |-> "yes"]

IIInv ==
    /\ TypeOK /\ ValuesTyped /\ PlaceHolds /\ EndHolds /\ LeftHolds /\ PassedHolds
    /\ WalkHolds /\ AnswersHold /\ StrayHolds /\ ListHolds /\ RunHolds /\ PrintHolds

\* How long a path is, and how many directories it goes through.
LEMMA PathFacts ==
  ASSUME TypeOK
  PROVE  /\ Len(path) \in Nat /\ (path = <<>> <=> Len(path) = 0)
         /\ Parents <= Len(path) /\ Parents \in Int /\ (Parents >= 0 => Parents \in Nat)
         /\ command = "list" => Parents = Len(path) /\ Parents \in Nat
         /\ command # "list" => (path = <<>> <=> Parents < 0)
<1>1. path \in Seq(ToSet(path))
  <2>1. CASE path \in Paths
    BY <2>1, IsoAssumption
  <2>2. CASE path = <<>>
    <3>1. <<>> \in Seq(ToSet(path))
      OBVIOUS
    <3> QED
      BY <2>2, <3>1
  <2> QED
    BY <2>1, <2>2 DEF TypeOK
<1>2. ASSUME NEW S, NEW s \in Seq(S) PROVE Len(s) \in Nat /\ (s = <<>> <=> Len(s) = 0)
  OBVIOUS
<1>3. Len(path) \in Nat /\ (path = <<>> <=> Len(path) = 0)
  BY <1>1, <1>2
<1> QED
  BY <1>3 DEF Parents

\* What is asked decides where it leads and what a directory answers.
LEMMA AskedKept ==
  ASSUME UNCHANGED asked
  PROVE  /\ volume' = volume /\ command' = command /\ path' = path /\ Parents' = Parents
         /\ Reached' = Reached /\ Doubtful' = Doubtful /\ Clear' = Clear
         /\ \A b : Answer(b)' = Answer(b)
<1>1. volume' = volume /\ command' = command /\ path' = path
  BY DEF asked
<1>2. Parents' = Parents
  BY <1>1 DEF Parents
<1>3. Reached' = Reached /\ Doubtful' = Doubtful
  BY <1>1, <1>2 DEF Reached, Doubtful
<1>4. \A b : Answer(b)' = Answer(b)
  BY <1>1 DEF Answer
<1> QED
  BY <1>1, <1>2, <1>3, <1>4 DEF Clear

\* The answer that memory gives.
LEMMA AnswerFacts ==
  ASSUME NEW b \in DOMAIN Extent \cup {Junk}
  PROVE  /\ Answer(b) \in Reply \ {Stray}
         /\ path # <<>> /\ b \in DOMAIN Extent =>
                (Answer(b) = Missing <=> FilesIn(ToSet(Extent[b])) = {})
         /\ Answer(b) # Missing =>
                /\ path # <<>> /\ b \in DOMAIN Extent
                /\ \E e \in FilesIn(ToSet(Extent[b])) : IsAnswer(Answer(b), e)
<1> DEFINE M == Matches(b, Last(path), "file")
           h == Hit(b, Last(path), "file")
<1>1. Missing \in Reply \ {Stray} /\ Missing.lba = 0
  BY DEF Missing, Stray, Reply
<1>2. CASE path = <<>>
  BY <1>1, <1>2 DEF Answer
<1>3. CASE path # <<>> /\ b = Junk
  <2>1. M = {}
    BY <1>3, InFacts
  <2>2. Answer(b) = Missing
    BY <2>1 DEF Answer
  <2>3. b \notin DOMAIN Extent
    BY <1>3, DiscAssumption DEF Junk
  <2> QED
    BY <1>1, <2>2, <2>3
<1>4. CASE path # <<>> /\ b \in DOMAIN Extent /\ M = {}
  <2>1. Answer(b) = Missing
    BY <1>4 DEF Answer
  <2>2. FilesIn(ToSet(Extent[b])) = {}
    BY <1>4, MatchesNamed DEF FilesIn
  <2> QED
    BY <1>1, <2>1, <2>2
<1>5. CASE path # <<>> /\ b \in DOMAIN Extent /\ M # {}
  <2>1. /\ h \in FilesIn(ToSet(Extent[b]))
        /\ h.lba \in Nat \ {0} /\ h.size \in Nat
    BY <1>5, HitNamed DEF FilesIn
  <2>2. Answer(b) = [lba |-> h.lba, size |-> h.size]
    BY <1>5 DEF Answer
  <2> HIDE DEF h
  <2>3. Answer(b).lba = h.lba /\ Answer(b).size = h.size
    BY <2>2
  <2>4. Answer(b) \in Reply /\ Answer(b) # Missing /\ Answer(b) # Stray
    <3>1. Missing.lba = 0 /\ Stray.lba = -1
      BY DEF Missing, Stray
    <3>2. Answer(b) \in [lba : Nat \ {0}, size : Nat]
      BY <2>1, <2>2
    <3>3. Answer(b).lba # 0 /\ Answer(b).lba # -1
      BY <2>1, <2>3
    <3> QED
      BY <3>1, <3>2, <3>3 DEF Reply
  <2> QED
    BY <1>5, <2>1, <2>3, <2>4 DEF IsAnswer
<1> QED
  BY <1>2, <1>3, <1>4, <1>5

\* Replies are told apart by their numbers.
LEMMA ReplyFacts ==
  ASSUME NEW a \in Reply
  PROVE  /\ a.lba = 0 <=> a = Missing
         /\ a.size > 0 => a # Missing /\ a # Stray
         /\ a # Stray => a.lba \in Nat /\ a.size \in Nat
         /\ a \notin {Missing, Stray} => a.lba \in Nat \ {0}
         /\ a.lba \in Nat \cup {Stray.lba}
         /\ Missing # Stray /\ Missing.size = 0
<1>1. Missing.lba = 0 /\ Missing.size = 0 /\ Stray.lba = -1 /\ Stray.size = -1
  BY DEF Missing, Stray
<1>2. CASE a \in [lba : Nat \ {0}, size : Nat]
  <2>1. a.lba \in Nat \ {0} /\ a.size \in Nat
    BY <1>2
  <2> QED
    BY <1>1, <2>1
<1>3. CASE a \in {Missing, Stray}
  BY <1>1, <1>3
<1> QED
  BY <1>2, <1>3 DEF Reply

\* The inductive invariant holds at first.
LEMMA InitIIInv == Init => IIInv
<1> SUFFICES ASSUME Init PROVE IIInv
  OBVIOUS
<1>1. Len(path) = 0 /\ Len(answers) = 0 /\ DOMAIN answers = {}
  BY DEF Init
<1>2. TypeOK
  BY <1>1 DEF Init, TypeOK, Commands
<1>3. ValuesTyped
  <2>1. answers \in Seq(Reply)
    BY DEF Init
  <2>2. Old \in [file : Nat \cup {Stray.lba}, whole : {"yes", "no"}]
    BY DEF Old
  <2> QED
    BY <2>1, <2>2 DEF Init, ValuesTyped
<1>4. PlaceHolds /\ EndHolds
  BY DEF Init, PlaceHolds, EndHolds, Walking, Held
<1>5. LeftHolds /\ PassedHolds
  BY DEF Init, LeftHolds, PassedHolds, Walking, NeverAStranger
<1>6. WalkHolds /\ AnswersHold /\ ListHolds
  BY <1>1 DEF Init, WalkHolds, AnswersHold, ListHolds, Walking, ListsTheDirectory, Done
<1>7. StrayHolds
  <2>1. ~Strayed
    BY <1>1 DEF Init, Strayed, Done
  <2> QED
    BY <2>1 DEF Init, StrayHolds, WildOnlyFor
<1>8. RunHolds /\ PrintHolds
  BY DEF Init, RunHolds, PrintHolds
<1> QED
  BY <1>2, <1>3, <1>4, <1>5, <1>6, <1>7, <1>8 DEF IIInv

\* What a lookup finds on the stack.
LEMMA LookupFacts ==
  ASSUME TypeOK, LeftHolds, NEW n \in 1 .. 4, Lookup(n), volume' = volume
  PROVE  /\ call' = n /\ pc' = "descriptor" /\ depth' = 0 /\ current' = Junk
         /\ left' \subseteq DOMAIN Extent \cup {PVD_sector}
         /\ pvd' \in {PVD_sector, Junk} /\ buffer' \in DOMAIN Extent \cup {Junk}
         /\ LeftHolds'
<1>1. /\ call' = n /\ pc' = "descriptor" /\ depth' = 0 /\ current' = Junk
      /\ left' = (left \cup {pvd, buffer}) \ {Junk}
      /\ pvd' \in (left' \cap {PVD_sector}) \cup {Junk}
      /\ buffer' \in (left' \ {PVD_sector}) \cup {Junk}
  BY DEF Lookup
<1>2. /\ pvd \in {PVD_sector, Junk} /\ buffer \in DOMAIN Extent \cup {Junk}
      /\ left \subseteq DOMAIN Extent \cup {PVD_sector}
  BY DEF TypeOK
<1>3. /\ \A l \in left \ {PVD_sector} : \E d \in Dirs : d.lba = l
      /\ buffer # Junk => \E d \in Dirs : d.lba = buffer
      /\ volume = "other" => PVD_sector \notin left /\ pvd = Junk
  BY DEF LeftHolds
<1>4. PVD_sector \notin DOMAIN Extent /\ PVD_sector # Junk
  BY DiscAssumption DEF Junk
<1>5. left' \subseteq DOMAIN Extent \cup {PVD_sector}
  BY <1>1, <1>2
<1>6. \A l \in left' \ {PVD_sector} : \E d \in Dirs : d.lba = l
  BY <1>1, <1>2, <1>3
<1>7. buffer' # Junk => buffer' \in left' \ {PVD_sector}
  BY <1>1
<1>8. volume = "other" => PVD_sector \notin left' /\ pvd' = Junk
  BY <1>1, <1>2, <1>3, <1>4
<1>9. LeftHolds'
  BY <1>6, <1>7, <1>8 DEF LeftHolds
<1> QED
  BY <1>1, <1>5, <1>7, <1>9

\* A command that is entered forgets the one before it, but for the stack.
LEMMA EnterIIInv ==
  ASSUME IIInv, NEW c \in Commands, NEW p \in Paths, Enter(c, p)
  PROVE  IIInv'
<1>1. /\ command' = c /\ path' = p /\ Lookup(1)
      /\ answers' = <<>> /\ listing' = <<>> /\ outcome' = "none"
      /\ failed' = {} /\ volume' = volume
      /\ target' = [target EXCEPT !["readfile"] = Old]
  BY DEF Enter
<1>2. /\ call' = 1 /\ pc' = "descriptor" /\ depth' = 0 /\ current' = Junk
      /\ left' \subseteq DOMAIN Extent \cup {PVD_sector}
      /\ pvd' \in {PVD_sector, Junk} /\ buffer' \in DOMAIN Extent \cup {Junk}
      /\ LeftHolds'
  BY <1>1, LookupFacts DEF IIInv
<1>3. Len(answers') = 0 /\ DOMAIN answers' = {}
  BY <1>1
<1>4. Len(p) \in Nat
  <2>1. p \in Seq(ToSet(p))
    BY IsoAssumption
  <2> QED
    BY <2>1
<1>5. TypeOK'
  <2>1. depth' \in 0 .. Len(path')
    BY <1>1, <1>2, <1>4
  <2>2. failed' \subseteq 1 .. 4 /\ Len(answers') <= 3 /\ call' \in 0 .. 4
    BY <1>1, <1>2, <1>3
  <2>3. path' \in Paths \cup {<<>>} /\ command' \in Commands
    BY <1>1
  <2>4. current' \in DOMAIN Extent \cup {Junk}
    BY <1>2
  <2> QED
    BY <1>1, <1>2, <2>1, <2>2, <2>3, <2>4, Zenon DEF TypeOK
<1>6. ValuesTyped'
  <2>1. answers' \in Seq(Reply)
    BY <1>1
  <2>2. Old \in [file : Nat \cup {Stray.lba}, whole : {"yes", "no"}]
    BY DEF Old
  <2> QED
    BY <1>1, <2>1, <2>2 DEF IIInv, ValuesTyped
<1>7. PlaceHolds'
  BY <1>1, <1>2, <1>3 DEF PlaceHolds, Walking, Held, Nth
<1>8. EndHolds'
  BY <1>1 DEF EndHolds
<1>9. PassedHolds' /\ WalkHolds' /\ AnswersHold' /\ ListHolds'
  BY <1>1, <1>2, <1>3 DEF PassedHolds, WalkHolds, AnswersHold, ListHolds, Walking,
                          NeverAStranger, ListsTheDirectory, Done
<1>10. StrayHolds'
  <2>1. ~Strayed'
    BY <1>2, <1>3 DEF Strayed, Done
  <2> QED
    BY <1>2, <2>1 DEF StrayHolds, WildOnlyFor
<1>11. RunHolds' /\ PrintHolds'
  BY <1>1, <1>2 DEF RunHolds, PrintHolds
<1> QED
  BY <1>2, <1>5, <1>6, <1>7, <1>8, <1>9, <1>10, <1>11 DEF IIInv

\* A read that is noted or goes well.
LEMMA FailingFacts ==
  ASSUME TypeOK, call >= 1, NEW ok \in BOOLEAN, Failing(ok)
  PROVE  /\ failed' \subseteq 1 .. 4 /\ failed \subseteq failed' /\ call \in 1 .. 4
         /\ failed' = {} => ok /\ failed = {} /\ call \notin failed'
         /\ call \notin failed' => ok /\ failed' = failed
         /\ ~ok => failed' # {} /\ call \in failed'
         /\ \A k : k \notin failed' => k \notin failed
<1>1. call \in 1 .. 4 /\ failed \subseteq 1 .. 4
  <2>1. call \in 0 .. 4 /\ failed \subseteq 1 .. 4
    BY Zenon DEF TypeOK
  <2> QED
    BY <2>1
<1>2. CASE ok
  BY <1>1, <1>2 DEF Failing
<1>3. CASE ~ok
  BY <1>1, <1>3 DEF Failing
<1> QED
  BY <1>2, <1>3

\* The answers are a sequence of replies.
LEMMA AnswersFacts ==
  ASSUME ValuesTyped
  PROVE  /\ Len(answers) \in Nat /\ DOMAIN answers = 1 .. Len(answers)
         /\ answers = <<>> <=> Len(answers) = 0
         /\ answers = <<>> => DOMAIN answers = {}
         /\ \A k \in DOMAIN answers : answers[k] \in Reply
<1>1. ASSUME NEW S, NEW s \in Seq(S)
      PROVE  /\ Len(s) \in Nat /\ DOMAIN s = 1 .. Len(s) /\ (s = <<>> <=> Len(s) = 0)
             /\ \A k \in DOMAIN s : s[k] \in S
  OBVIOUS
<1>2. answers \in Seq(Reply)
  BY DEF ValuesTyped
<1>3. 1 .. 0 = {}
  OBVIOUS
<1> QED
  BY <1>1, <1>2, <1>3

\* What the lookups have answered stays true of them while they are kept.
LEMMA KeptAnswers ==
  ASSUME IIInv, UNCHANGED <<asked, answers>>, failed \subseteq failed',
         call' = call \/ Len(answers) <= 2
  PROVE  AnswersHold'
<1>1. answers' = answers /\ UNCHANGED asked /\ ValuesTyped /\ AnswersHold
  BY DEF IIInv
<1>2. \A k \in DOMAIN answers : LookupOf(k)' = LookupOf(k)
  <2>1. CASE call' = call
    BY <2>1 DEF LookupOf
  <2>2. CASE Len(answers) <= 2
    <3>1. \A k \in DOMAIN answers : k # 3
      BY <1>1, <2>2, AnswersFacts
    <3> QED
      BY <3>1 DEF LookupOf
  <2> QED
    BY <2>1, <2>2
<1>3. ASSUME NEW k \in DOMAIN answers, LookupOf(k)' \notin failed'
      PROVE  (Clear' => AnswersWalk(k)') /\ (answers'[k] = Stray => Doubtful')
  <2>1. LookupOf(k) \notin failed
    BY <1>2, <1>3
  <2>2. (Clear => AnswersWalk(k)) /\ (answers[k] = Stray => Doubtful)
    BY <1>1, <2>1 DEF AnswersHold
  <2>3. /\ path' = path /\ Parents' = Parents /\ Doubtful' = Doubtful /\ Clear' = Clear
        /\ \A b : Answer(b)' = Answer(b)
    BY <1>1, AskedKept
  <2>4. AnswersWalk(k) => AnswersWalk(k)'
    BY <1>1, <2>3 DEF AnswersWalk
  <2> QED
    BY <1>1, <2>2, <2>3, <2>4
<1> QED
  BY <1>1, <1>3 DEF AnswersHold

\* How much of the path is behind it is a number.
LEMMA DepthFacts == ASSUME TypeOK PROVE depth \in Nat /\ depth <= Len(path)
<1>1. depth \in 0 .. Len(path)
  BY Zenon DEF TypeOK
<1> QED
  BY <1>1, PathFacts

\* Where a lookup can be does not shrink when a read fails.
LEMMA WithinFacts ==
  ASSUME UNCHANGED <<asked, call, left>>, failed \subseteq failed'
  PROVE  /\ From \subseteq From' /\ (call \in failed' => LeftDirectories \subseteq From')
         /\ (call \notin failed => From = {Root})
         /\ \A n : Passed(path, n, From) \subseteq Passed(path, n, From')
<1>1. call' = call /\ LeftDirectories' = LeftDirectories
  BY DEF LeftDirectories
<1>2. From \subseteq From' /\ (call \in failed' => LeftDirectories \subseteq From')
  BY <1>1 DEF From
<1>3. call \notin failed => From = {Root}
  BY DEF From
<1>4. \A n : Passed(path, n, From) \subseteq Passed(path, n, From')
  BY <1>2, PassedMore
<1> QED
  BY <1>2, <1>3, <1>4

\* A directory's sector that is read, or fails to be, while walking.
LEMMA ReadFacts ==
  ASSUME IIInv, Walking, NEW ok \in BOOLEAN, Failing(ok), buffer' = After(ok),
         UNCHANGED <<asked, call, left>>
  PROVE  /\ buffer' \in DOMAIN Extent \cup {Junk}
         /\ failed' \subseteq 1 .. 4 /\ failed \subseteq failed'
         /\ call \notin failed' => ok /\ failed' = failed /\ buffer' = current
         /\ failed' = {} => failed = {} /\ call \notin failed'
         /\ buffer' # Junk => \E d \in Passed(path, depth, From') : d.lba = buffer'
         /\ current # Junk => \E d \in Passed(path, depth, From') : d.lba = current
         /\ buffer' = Junk => call \in failed' \/ Doubtful
         /\ buffer' # Junk => \E d \in Dirs : d.lba = buffer'
<1>1. /\ TypeOK /\ PlaceHolds /\ PassedHolds /\ LeftHolds /\ StrayHolds
      /\ call >= 1 /\ command # "discinfo" /\ depth \in Nat
  <2>1. TypeOK /\ PlaceHolds /\ PassedHolds /\ LeftHolds /\ StrayHolds
    BY DEF IIInv
  <2>2. call >= 1 /\ command # "discinfo"
    BY <2>1 DEF PlaceHolds, Walking
  <2> QED
    BY <2>1, <2>2, DepthFacts
<1>2. /\ failed' \subseteq 1 .. 4 /\ failed \subseteq failed' /\ call \in 1 .. 4
      /\ failed' = {} => ok /\ failed = {} /\ call \notin failed'
      /\ call \notin failed' => ok /\ failed' = failed
      /\ ~ok => failed' # {} /\ call \in failed'
  BY <1>1, FailingFacts
<1>3. /\ From \subseteq From' /\ (call \in failed' => LeftDirectories \subseteq From')
      /\ \A n : Passed(path, n, From) \subseteq Passed(path, n, From')
  BY <1>2, WithinFacts
<1>4. (ok /\ buffer' = current) \/ (~ok /\ buffer' = buffer)
  BY DEF After
<1>5. current # Junk => \E d \in Passed(path, depth, From') : d.lba = current
  BY <1>1, <1>3 DEF PassedHolds
<1>6. current = Junk => call \in failed \/ Doubtful
  BY <1>1 DEF StrayHolds, Walking
<1>7. ASSUME ~ok, buffer # Junk
      PROVE \E d \in Passed(path, depth, From') : d.lba = buffer
  <2>1. CASE pc = "root"
    <3>1. depth = 0 /\ buffer \in left
      BY <1>1, <1>7, <2>1 DEF PlaceHolds, LeftHolds
    <3>2. PICK d \in Dirs : d.lba = buffer
      BY <1>1, <1>7 DEF LeftHolds
    <3>3. d \in From'
      BY <1>2, <1>3, <1>7, <3>1, <3>2 DEF LeftDirectories
    <3> QED
      BY <3>1, <3>2, <3>3, PassedStarts
  <2>2. CASE pc \in {"directory", "last"}
    BY <1>1, <1>3, <1>7, <2>2 DEF PassedHolds
  <2> QED
    BY <2>1, <2>2 DEF Walking
<1>8. buffer' # Junk => \E d \in Passed(path, depth, From') : d.lba = buffer'
  BY <1>4, <1>5, <1>7
<1>9. buffer' # Junk => \E d \in Dirs : d.lba = buffer'
  BY <1>1, <1>8, PassedLater
<1>10. buffer' \in DOMAIN Extent \cup {Junk}
  BY <1>9, DirsFacts
<1>11. buffer' = Junk => call \in failed' \/ Doubtful
  BY <1>2, <1>4, <1>6
<1> QED
  BY <1>2, <1>4, <1>5, <1>8, <1>9, <1>10, <1>11

\* Memory that is no directory, and a full sector, are met where a read failed or
\* the walk is doubtful.
LEMMA EndlessIsDoubtful ==
  ASSUME IIInv, pc \in {"directory", "last"}, NEW ok \in BOOLEAN, Failing(ok),
         buffer' = After(ok), UNCHANGED <<asked, call, left>>, Endless(buffer')
  PROVE  call \in failed' \/ Doubtful
<1> SUFFICES ASSUME call \notin failed', ~Doubtful PROVE FALSE
  OBVIOUS
<1>1. Walking /\ TypeOK /\ PlaceHolds /\ PassedHolds
  BY DEF Walking, IIInv
<1>2. failed' = failed /\ buffer' = current /\ buffer' # Junk
  BY <1>1, ReadFacts
<1>3. current \in Unended
  BY <1>2 DEF Endless
<1>4. PICK d \in Passed(path, depth, {Root}) : d.lba = current
  <2>1. From = {Root}
    BY <1>2 DEF From
  <2> QED
    BY <1>1, <1>2, <2>1 DEF PassedHolds
<1>5. Parents \in Nat /\ depth \in Nat /\ depth <= Parents
  <2>1. Parents \in Int /\ ~(Parents < 0)
    BY <1>1, PathFacts DEF Doubtful
  <2>2. depth \in Nat
    BY <1>1, DepthFacts
  <2>3. pc = "directory" => depth < Parents
    BY <1>1 DEF PlaceHolds
  <2>4. pc = "last" => depth = Parents
    BY <1>1, <2>1 DEF PlaceHolds
  <2> QED
    BY <2>1, <2>2, <2>3, <2>4
<1>6. d \in Passed(path, Parents, {Root})
  BY <1>5, PassedLater
<1> QED
  BY <1>3, <1>4, <1>6 DEF Doubtful

\* Where the path's directories are there, the walk finds the next one.
LEMMA WayMatches ==
  ASSUME IIInv, pc = "directory", Reached, call \notin failed
  PROVE  current # Junk /\ Matches(current, path[depth + 1], "dir") # {}
<1>1. OnTheWalk /\ TypeOK
  BY DEF IIInv, WalkHolds, Clear, Walking
<1>2. Parents \in Nat /\ depth \in Nat /\ depth < Parents
  <2>1. Parents \in Nat
    BY <1>1, PathFacts DEF Reached
  <2>2. depth \in Nat /\ depth < Parents
    BY <1>1, DepthFacts DEF IIInv, PlaceHolds
  <2> QED
    BY <2>1, <2>2
<1>3. PICK d : d \in FirstDirectories(path, Parents)
  BY DEF Reached
<1>4. PICK v \in [0 .. Parents -> Dirs] : \E w \in Walks(path, Parents) :
          /\ \A k \in 0 .. Parents : w[k] = v[k].lba
          /\ \A k \in 1 .. Parents : v[k] \in IntoFirst(v[k - 1], path[k])
  BY <1>2, <1>3, WayWalks
<1>5. depth + 1 \in 1 .. Parents /\ (depth + 1) - 1 = depth /\ depth \in 0 .. Parents
  BY <1>2
<1>6. current = v[depth].lba /\ current # Junk
  BY <1>1, <1>4, <1>5 DEF OnTheWalk
<1>7. v[depth + 1] \in Named(ToSet(Extent[current]), path[depth + 1], "dir")
  BY <1>4, <1>5, <1>6 DEF IntoFirst, FirstEntries
<1>8. current \in DOMAIN Extent
  BY <1>1, <1>6, Zenon DEF TypeOK
<1> QED
  BY <1>6, <1>7, <1>8, MatchesNamed

\* Answers that no number can be trusted of were so before.
LEMMA KeptStray ==
  ASSUME IIInv, UNCHANGED <<asked, answers>>, failed \subseteq failed', pc # "wild",
         \E k \in DOMAIN answers' : answers'[k] = Stray
  PROVE  failed' # {} \/ Doubtful'
<1>1. Strayed
  BY DEF Strayed
<1>2. failed # {} \/ Doubtful
  BY <1>1 DEF IIInv, StrayHolds, WildOnlyFor
<1>3. Doubtful' = Doubtful
  BY AskedKept
<1> QED
  BY <1>2, <1>3

\* A step of the walk leaves the answers, the screen and the programs alone.
LEMMA WalkingOn ==
  ASSUME IIInv, pc \in {"descriptor", "root", "directory"},
         pc' \in {"root", "directory", "last"}, failed \subseteq failed',
         UNCHANGED <<asked, call, left, answers, listing, target, outcome>>
  PROVE  /\ ValuesTyped' /\ EndHolds' /\ AnswersHold' /\ NeverAStranger' /\ WildOnlyFor'
         /\ ListsTheDirectory' /\ RunHolds' /\ PrintHolds' /\ outcome = "none"
<1>1. /\ volume' = volume /\ command' = command /\ path' = path /\ answers' = answers
      /\ call' = call /\ target' = target /\ outcome' = outcome
  BY DEF asked
<1>2. outcome = "none"
  BY DEF IIInv, EndHolds
<1>3. ValuesTyped'
  BY <1>1 DEF IIInv, ValuesTyped
<1>4. EndHolds'
  BY <1>1, <1>2 DEF EndHolds
<1>5. AnswersHold'
  BY KeptAnswers
<1>6. NeverAStranger' /\ ListsTheDirectory'
  BY DEF NeverAStranger, ListsTheDirectory, Done
<1>7. WildOnlyFor'
  <2>1. Strayed' => \E k \in DOMAIN answers' : answers'[k] = Stray
    BY DEF Strayed, Done
  <2> QED
    BY <2>1, KeptStray DEF WildOnlyFor
<1>8. RunHolds' /\ PrintHolds'
  BY <1>1, <1>2 DEF IIInv, RunHolds, PrintHolds
<1> QED
  BY <1>2, <1>3, <1>4, <1>5, <1>6, <1>7, <1>8

\* discinfo is done when it has the descriptor.
LEMMA DiscinfoIIInv ==
  ASSUME IIInv, NEW ok \in BOOLEAN, Descriptor(ok), command = "discinfo"
  PROVE  IIInv'
<1>1. /\ pc = "descriptor" /\ Failing(ok) /\ pc' = "prompt" /\ outcome' \in {"valid", "not valid"}
      /\ UNCHANGED <<asked, call, depth, buffer, left, answers, listing, target, current, pvd>>
      /\ volume' = volume /\ command' = command /\ path' = path
  BY DEF Descriptor, asked, Finish
<1>2. /\ TypeOK /\ ValuesTyped /\ PlaceHolds /\ LeftHolds /\ StrayHolds /\ call >= 1
      /\ answers = <<>> /\ DOMAIN answers = {} /\ outcome = "none"
  <2>1. TypeOK /\ ValuesTyped /\ PlaceHolds /\ LeftHolds /\ StrayHolds /\ EndHolds
    BY DEF IIInv
  <2>2. call >= 1 /\ answers = <<>>
    BY <1>1, <2>1 DEF PlaceHolds, Held
  <2>3. DOMAIN answers = {}
    BY <2>1, <2>2, AnswersFacts
  <2> QED
    BY <1>1, <2>1, <2>2, <2>3 DEF EndHolds
<1>3. failed' \subseteq 1 .. 4 /\ failed \subseteq failed' /\ (~ok => call \in failed')
  BY <1>1, <1>2, FailingFacts
<1>4. TypeOK'
  BY <1>1, <1>2, <1>3 DEF TypeOK
<1>5. ValuesTyped' /\ LeftHolds'
  BY <1>1, <1>2 DEF ValuesTyped, LeftHolds
<1>6. PlaceHolds'
  BY <1>1, <1>2 DEF PlaceHolds, Walking, Held
<1>7. EndHolds'
  BY <1>1 DEF EndHolds
<1>8. PassedHolds' /\ WalkHolds' /\ ListHolds' /\ RunHolds' /\ PrintHolds' /\ AnswersHold'
  BY <1>1, <1>2 DEF PassedHolds, WalkHolds, ListHolds, RunHolds, PrintHolds, AnswersHold,
                    Walking, NeverAStranger, ListsTheDirectory, Done
<1>9. StrayHolds'
  <2>1. ~Strayed'
    BY <1>1, <1>2 DEF Strayed, Done
  <2> QED
    BY <1>1, <2>1 DEF StrayHolds, WildOnlyFor
<1> QED
  BY <1>4, <1>5, <1>6, <1>7, <1>8, <1>9 DEF IIInv

\* The descriptor leads to the root, or nobody can say where.
LEMMA DescriptorIIInv ==
  ASSUME IIInv, NEW ok \in BOOLEAN, Descriptor(ok)
  PROVE  IIInv'
<1>1. CASE command = "discinfo"
  BY <1>1, DiscinfoIIInv
<1>2. CASE command # "discinfo"
  <2>1. /\ pc = "descriptor" /\ Failing(ok) /\ pc' = "root" /\ outcome' = outcome
        /\ UNCHANGED <<asked, call, depth, buffer, left, answers, listing, target>>
        /\ pvd' = (IF ~ok THEN pvd ELSE IF volume = "iso" THEN PVD_sector ELSE Junk)
        /\ current' = (IF pvd' = PVD_sector THEN Root.lba ELSE Junk)
        /\ volume' = volume /\ command' = command /\ path' = path
    BY <1>2 DEF Descriptor, asked
  <2>2. TypeOK /\ PlaceHolds /\ LeftHolds /\ call >= 1 /\ depth = 0
    <3>1. TypeOK /\ PlaceHolds /\ LeftHolds
      BY DEF IIInv
    <3> QED
      BY <2>1, <3>1 DEF PlaceHolds
  <2>3. /\ failed' \subseteq 1 .. 4 /\ failed \subseteq failed'
        /\ ~ok => call \in failed'
    BY <2>1, <2>2, FailingFacts
  <2>4. /\ ValuesTyped' /\ EndHolds' /\ AnswersHold' /\ NeverAStranger' /\ WildOnlyFor'
        /\ ListsTheDirectory' /\ RunHolds' /\ PrintHolds'
    BY <2>1, <2>3, WalkingOn
  <2>5. Doubtful' = Doubtful /\ Clear' = Clear /\ Parents' = Parents
    BY <2>1, AskedKept
  <2>6. Root.lba \in DOMAIN Extent /\ Root \in Dirs /\ Root.lba # Junk /\ PVD_sector # Junk
    BY DiscAssumption DEF IsDirectory, Dirs, Junk
  <2>7. /\ pvd' \in {PVD_sector, Junk} /\ current' \in {Root.lba, Junk}
        /\ volume = "other" => pvd' = Junk /\ PVD_sector \notin left
    <3>1. pvd \in {PVD_sector, Junk} /\ (volume = "other" => pvd = Junk /\ PVD_sector \notin left)
      BY <2>2 DEF TypeOK, LeftHolds
    <3> QED
      BY <2>1, <3>1
  <2>8. ok /\ volume = "iso" => current' = Root.lba
    BY <2>1
  <2>9. volume \in {"iso", "other"}
    BY DEF IIInv, ValuesTyped
  <2>10. TypeOK'
    BY <2>1, <2>2, <2>3, <2>6, <2>7 DEF TypeOK
  <2>11. PlaceHolds'
    <3>1. Nth' = Nth /\ Len(answers) = Nth - 1 /\ Len(answers') = Len(answers)
      BY <2>1, <2>2 DEF PlaceHolds, Nth
    <3>2. answers # <<>> => command \in {"findfile", "readfile", "run"}
      BY <2>2 DEF PlaceHolds
    <3>3. /\ command = "findfile" => call <= 2
          /\ command \in {"readfile", "list", "discinfo"} => call <= 1
      BY <2>2 DEF PlaceHolds
    <3> QED
      BY <1>2, <2>1, <2>2, <2>7, <3>1, <3>2, <3>3 DEF PlaceHolds, Walking, Held
  <2>12. LeftHolds'
    BY <2>1, <2>2, <2>7 DEF LeftHolds
  <2>13. PassedHolds'
    <3>1. Root \in From'
      BY DEF From
    <3>2. Root \in Passed(path, 0, From')
      BY <2>6, <3>1, PassedStarts
    <3> QED
      BY <2>1, <2>2, <2>4, <2>7, <3>2 DEF PassedHolds
  <2>14. WalkHolds'
    <3>1. Clear => volume = "iso"
      BY <2>9 DEF Clear, Reached, Doubtful
    <3>2. \A w \in Walks(path, Parents) : w[0] = Root.lba
      BY DEF Walks
    <3>3. Clear /\ call \notin failed' => current' = Root.lba
      BY <2>3, <2>8, <3>1
    <3> QED
      BY <2>1, <2>2, <2>5, <2>6, <3>2, <3>3 DEF WalkHolds, OnTheWalk
  <2>15. StrayHolds'
    <3>1. current' = Junk => call \in failed' \/ Doubtful
      BY <2>3, <2>6, <2>8, <2>9 DEF Doubtful
    <3> QED
      BY <2>1, <2>4, <2>5, <3>1 DEF StrayHolds
  <2>16. ListHolds'
    <3>1. ~Doubtful /\ failed' = {} => current' = Root.lba
      BY <2>3, <2>8, <2>9 DEF Doubtful
    <3> QED
      BY <2>1, <2>2, <2>4, <2>5, <3>1, FirstRoot DEF ListHolds
  <2> QED
    BY <2>4, <2>10, <2>11, <2>12, <2>13, <2>14, <2>15, <2>16 DEF IIInv
<1> QED
  BY <1>1, <1>2

\* The root directory is read.
LEMMA ReadRootIIInv ==
  ASSUME IIInv, NEW ok \in BOOLEAN, ReadRoot(ok)
  PROVE  IIInv'
<1>1. /\ pc = "root" /\ Failing(ok) /\ buffer' = After(ok) /\ pc' = Stage(depth)
      /\ UNCHANGED <<asked, call, depth, current, pvd, left, answers, listing, target, outcome>>
      /\ UNCHANGED <<asked, call, left>>
      /\ volume' = volume /\ command' = command /\ path' = path
  BY DEF ReadRoot, asked
<1>2. Walking /\ TypeOK /\ PlaceHolds /\ depth = 0 /\ command # "discinfo" /\ call >= 1
  <2>1. Walking /\ TypeOK /\ PlaceHolds
    BY <1>1 DEF IIInv, Walking
  <2> QED
    BY <1>1, <2>1 DEF PlaceHolds
<1>3. /\ buffer' \in DOMAIN Extent \cup {Junk}
      /\ failed' \subseteq 1 .. 4 /\ failed \subseteq failed'
      /\ call \notin failed' => ok /\ failed' = failed /\ buffer' = current
      /\ failed' = {} => failed = {} /\ call \notin failed'
      /\ buffer' # Junk => \E d \in Passed(path, depth, From') : d.lba = buffer'
      /\ current # Junk => \E d \in Passed(path, depth, From') : d.lba = current
      /\ buffer' # Junk => \E d \in Dirs : d.lba = buffer'
  BY <1>1, <1>2, ReadFacts
<1>4. Parents' = Parents /\ Doubtful' = Doubtful /\ Clear' = Clear /\ Parents \in Int
  BY <1>1, <1>2, AskedKept, PathFacts
<1>5. \/ pc' = "last" /\ depth = IF Parents < 0 THEN 0 ELSE Parents
      \/ pc' = "directory" /\ depth < Parents
  BY <1>1, <1>2, <1>4 DEF Stage
<1>6. /\ ValuesTyped' /\ EndHolds' /\ AnswersHold' /\ NeverAStranger' /\ WildOnlyFor'
      /\ ListsTheDirectory' /\ RunHolds' /\ PrintHolds'
  BY <1>1, <1>3, <1>5, WalkingOn
<1>7. Walking'
  BY <1>5 DEF Walking
<1>8. TypeOK'
  BY <1>1, <1>2, <1>3, <1>5 DEF TypeOK
<1>9. PlaceHolds'
  <2>1. Nth' = Nth /\ Len(answers) = Nth - 1 /\ Len(answers') = Len(answers)
    BY <1>1, <1>2 DEF PlaceHolds, Nth
  <2>2. /\ answers # <<>> => command \in {"findfile", "readfile", "run"}
        /\ command = "findfile" => call <= 2
        /\ command \in {"readfile", "list", "discinfo"} => call <= 1
    BY <1>2 DEF PlaceHolds
  <2> QED
    BY <1>1, <1>2, <1>4, <1>5, <2>1, <2>2 DEF PlaceHolds, Walking, Held
<1>10. LeftHolds'
  BY <1>1, <1>3, <1>5 DEF IIInv, LeftHolds
<1>11. PassedHolds'
  BY <1>1, <1>3, <1>6 DEF PassedHolds
<1>12. WalkHolds'
  <2>1. Clear /\ call \notin failed' => OnTheWalk
    BY <1>2, <1>3 DEF IIInv, WalkHolds
  <2>2. OnTheWalk => OnTheWalk'
    BY <1>1, <1>4 DEF OnTheWalk
  <2> QED
    BY <1>1, <1>4, <2>1, <2>2 DEF WalkHolds
<1>13. StrayHolds'
  <2>1. current = Junk => call \in failed \/ Doubtful
    BY <1>1, <1>2 DEF IIInv, StrayHolds
  <2> QED
    BY <1>1, <1>3, <1>4, <1>6, <2>1 DEF StrayHolds
<1>14. ListHolds'
  <2>1. command = "list" /\ failed' = {} /\ ~Doubtful =>
            \E d \in FirstDirectories(path, depth) : d.lba = current
    BY <1>2, <1>3 DEF IIInv, ListHolds
  <2> QED
    BY <1>1, <1>4, <1>6, <2>1 DEF ListHolds
<1> QED
  BY <1>6, <1>8, <1>9, <1>10, <1>11, <1>12, <1>13, <1>14 DEF IIInv

\* A lookup goes on behind one part of the path.
LEMMA GoesOnIIInv ==
  ASSUME IIInv, pc = "directory", NEW ok \in BOOLEAN, Failing(ok), buffer' = After(ok), Onward,
         UNCHANGED <<asked, call, pvd, left, answers, listing, target, outcome>>,
         NEW part, part = path[depth + 1],
         \/ Matches(buffer', part, "dir") # {} /\ current' = Hit(buffer', part, "dir").lba
         \/ Matches(buffer', part, "dir") = {} /\ current' = current /\ command # "list"
         \/ RunsOut(buffer', part, "dir") /\ current' = Junk
  PROVE  IIInv'
<1>1. /\ depth' = depth + 1 /\ pc' = Stage(depth + 1)
      /\ volume' = volume /\ command' = command /\ path' = path
      /\ UNCHANGED <<asked, call, left>>
  BY DEF Onward, asked
<1>2. /\ TypeOK /\ PlaceHolds /\ PassedHolds /\ WalkHolds /\ StrayHolds /\ ListHolds /\ Walking
      /\ depth < Parents /\ command # "discinfo" /\ call >= 1
  <2>1. /\ TypeOK /\ PlaceHolds /\ PassedHolds /\ WalkHolds /\ StrayHolds /\ ListHolds /\ Walking
    BY DEF IIInv, Walking
  <2> QED
    BY <2>1 DEF PlaceHolds
<1>3. /\ buffer' \in DOMAIN Extent \cup {Junk}
      /\ failed' \subseteq 1 .. 4 /\ failed \subseteq failed'
      /\ call \notin failed' => ok /\ failed' = failed /\ buffer' = current
      /\ failed' = {} => failed = {} /\ call \notin failed'
      /\ buffer' # Junk => \E d \in Passed(path, depth, From') : d.lba = buffer'
      /\ current # Junk => \E d \in Passed(path, depth, From') : d.lba = current
      /\ buffer' # Junk => \E d \in Dirs : d.lba = buffer'
  BY <1>1, <1>2, ReadFacts
<1>4. /\ Parents' = Parents /\ Doubtful' = Doubtful /\ Clear' = Clear /\ Reached' = Reached
      /\ Parents \in Nat /\ Parents <= Len(path) /\ Len(path) \in Nat
      /\ depth \in Nat /\ depth + 1 \in Nat /\ depth + 1 <= Len(path) /\ depth <= depth + 1
  <2>1. /\ Parents' = Parents /\ Doubtful' = Doubtful /\ Clear' = Clear /\ Reached' = Reached
    BY <1>1, AskedKept
  <2>2. Parents \in Int /\ Parents <= Len(path) /\ Len(path) \in Nat /\ depth \in Nat
    BY <1>2, PathFacts, DepthFacts
  <2> QED
    BY <1>2, <2>1, <2>2
<1>5. \/ pc' = "last" /\ depth' = Parents
      \/ pc' = "directory" /\ depth' < Parents
  BY <1>1, <1>2, <1>4 DEF Stage
<1>6. /\ ValuesTyped' /\ EndHolds' /\ AnswersHold' /\ NeverAStranger' /\ WildOnlyFor'
      /\ ListsTheDirectory' /\ RunHolds' /\ PrintHolds'
  BY <1>1, <1>3, <1>5, WalkingOn
<1>7. Walking'
  BY <1>5 DEF Walking
<1>8. ASSUME Matches(buffer', part, "dir") # {}
      PROVE  buffer' \in DOMAIN Extent /\ buffer' # Junk
  BY <1>3, <1>8, InFacts
<1>9. RunsOut(buffer', part, "dir") => call \in failed' \/ Doubtful
  BY <1>1, EndlessIsDoubtful DEF RunsOut
<1>10. \/ Matches(buffer', part, "dir") # {} /\ current' = Hit(buffer', part, "dir").lba
       \/ Matches(buffer', part, "dir") = {} /\ current' = current /\ command # "list"
       \/ RunsOut(buffer', part, "dir") /\ current' = Junk
  OBVIOUS
<1>11. current' \in DOMAIN Extent \cup {Junk}
  BY <1>2, <1>8, <1>10, HitDirectory DEF TypeOK
<1>12. TypeOK'
  <2>1. depth' \in 0 .. Len(path')
    BY <1>1, <1>4
  <2> QED
    BY <1>1, <1>2, <1>3, <1>5, <1>11, <2>1 DEF TypeOK
<1>13. PlaceHolds'
  <2>1. Nth' = Nth /\ Len(answers) = Nth - 1 /\ Len(answers') = Len(answers)
    BY <1>1, <1>2 DEF PlaceHolds, Nth
  <2>2. /\ answers # <<>> => command \in {"findfile", "readfile", "run"}
        /\ command = "findfile" => call <= 2
        /\ command \in {"readfile", "list", "discinfo"} => call <= 1
    BY <1>2 DEF PlaceHolds
  <2> QED
    BY <1>1, <1>2, <1>4, <1>5, <2>1, <2>2 DEF PlaceHolds, Walking, Held
<1>14. LeftHolds'
  BY <1>1, <1>3, <1>5 DEF IIInv, LeftHolds
<1>15. PassedHolds'
  <2>1. buffer' # Junk => \E d \in Passed(path, depth + 1, From') : d.lba = buffer'
    BY <1>3, <1>4, PassedLater
  <2>2. current' # Junk => \E d \in Passed(path, depth + 1, From') : d.lba = current'
    <3>1. CASE Matches(buffer', part, "dir") # {} /\ current' = Hit(buffer', part, "dir").lba
      <4>1. PICK d \in Passed(path, depth, From') : d.lba = buffer'
        BY <1>3, <1>8, <3>1
      <4>2. /\ Hit(buffer', part, "dir") \in Named(ToSet(Extent[d.lba]), part, "dir")
            /\ Hit(buffer', part, "dir") \in Dirs
        BY <1>8, <3>1, <4>1, HitNamed, HitDirectory
      <4>3. Hit(buffer', part, "dir") \in IntoOrStay(d, path[depth + 1])
        BY <4>2 DEF IntoOrStay, IntoFirst, FirstEntries
      <4>4. Hit(buffer', part, "dir") \in Passed(path, depth + 1, From')
        BY <1>4, <4>1, <4>2, <4>3, PassedOn
      <4> QED
        BY <3>1, <4>4
    <3>2. CASE current' = current
      BY <1>3, <1>4, <3>2, PassedLater
    <3> QED
      BY <1>10, <3>1, <3>2
  <2> QED
    BY <1>1, <1>6, <2>1, <2>2 DEF PassedHolds
<1>16. WalkHolds'
  <2>1. ASSUME Clear, call \notin failed' PROVE OnTheWalk'
    <3>1. OnTheWalk /\ buffer' = current /\ failed' = failed /\ current \in DOMAIN Extent
      BY <1>2, <1>3, <2>1 DEF WalkHolds, OnTheWalk, TypeOK
    <3>2. current' = Goes(current, part) /\ current' # Junk
      <4>1. ~RunsOut(buffer', part, "dir")
        <5>1. ASSUME RunsOut(buffer', part, "dir") PROVE FALSE
          <6>1. Reached /\ Matches(buffer', part, "dir") = {}
            BY <1>9, <2>1, <5>1 DEF Clear, RunsOut
          <6> QED
            BY <2>1, <3>1, <6>1, WayMatches
        <5> QED
          BY <5>1
      <4>2. Goes(current, part) \in DOMAIN Extent
        BY <3>1, GoesOn
      <4>3. current' = Goes(current, part)
        BY <1>10, <3>1, <4>1 DEF Goes
      <4> QED
        BY <4>2, <4>3, SectorFacts
    <3>3. ASSUME NEW w \in Walks(path, Parents) PROVE w[depth + 1] = current'
      <4>1. w[depth] = current
        BY <3>1 DEF OnTheWalk
      <4>2. depth + 1 \in 1 .. Parents /\ (depth + 1) - 1 = depth
        BY <1>2, <1>4
      <4>3. w[depth + 1] = Goes(w[(depth + 1) - 1], path[depth + 1])
        BY <4>2 DEF Walks
      <4> QED
        BY <3>2, <4>1, <4>2, <4>3
    <3> QED
      BY <1>1, <1>4, <3>2, <3>3 DEF OnTheWalk
  <2> QED
    BY <1>1, <1>4, <2>1 DEF WalkHolds
<1>17. StrayHolds'
  <2>1. current' = Junk => call \in failed' \/ Doubtful
    <3>1. current = Junk => call \in failed \/ Doubtful
      BY <1>2 DEF StrayHolds
    <3>2. Matches(buffer', part, "dir") # {} => Hit(buffer', part, "dir").lba # Junk
      BY <1>8, HitDirectory, SectorFacts
    <3> QED
      BY <1>3, <1>9, <1>10, <3>1, <3>2
  <2> QED
    BY <1>1, <1>4, <1>6, <2>1 DEF StrayHolds
<1>18. ListHolds'
  <2>1. ASSUME command = "list", failed' = {}, ~Doubtful
        PROVE  \E d \in FirstDirectories(path, depth + 1) : d.lba = current'
    <3>1. /\ buffer' = current /\ Matches(buffer', part, "dir") # {}
          /\ current' = Hit(buffer', part, "dir").lba
      BY <1>3, <1>9, <1>10, <2>1
    <3>2. PICK d \in FirstDirectories(path, depth) : d.lba = current
      BY <1>2, <1>3, <2>1 DEF ListHolds
    <3>3. /\ Hit(buffer', part, "dir") \in Named(ToSet(Extent[d.lba]), part, "dir")
          /\ Hit(buffer', part, "dir") \in Dirs
      BY <1>8, <3>1, <3>2, HitNamed, HitDirectory
    <3>4. Hit(buffer', part, "dir") \in IntoFirst(d, path[depth + 1])
      BY <3>3 DEF IntoFirst, FirstEntries
    <3>5. Hit(buffer', part, "dir") \in FirstDirectories(path, depth + 1)
      BY <1>4, <3>2, <3>3, <3>4, FirstOn
    <3> QED
      BY <3>1, <3>5
  <2> QED
    BY <1>1, <1>4, <1>6, <2>1 DEF ListHolds
<1> QED
  BY <1>6, <1>12, <1>13, <1>14, <1>15, <1>16, <1>17, <1>18 DEF IIInv

\* A walk or a read that does not come back leaves everything else as it was.
LEMMA WildIIInv ==
  ASSUME IIInv, pc \notin {"prompt", "wild"}, pc' = "wild",
         UNCHANGED <<asked, call, depth, current, pvd, left, answers, listing, outcome>>,
         failed \subseteq failed', failed' \subseteq 1 .. 4,
         buffer' \in DOMAIN Extent \cup {Junk},
         buffer' # Junk => \E d \in Dirs : d.lba = buffer',
         target' \in [{"run", "readfile"} -> [file : Nat \cup {Stray.lba}, whole : {"yes", "no"}]],
         call = 4 => target' = target,
         \/ failed' # {} \/ Doubtful
         \/ command = "readfile" /\ answers # <<>> /\ Found.size > BufUnits
  PROVE  IIInv'
<1>1. /\ volume' = volume /\ command' = command /\ path' = path /\ answers' = answers
      /\ call' = call /\ outcome' = outcome /\ Found' = Found
  BY DEF asked, Found
<1>2. TypeOK /\ ValuesTyped /\ PlaceHolds /\ EndHolds /\ LeftHolds /\ RunHolds
  BY DEF IIInv
<1>3. outcome = "none"
  BY <1>2 DEF EndHolds
<1>4. TypeOK'
  BY <1>1, <1>2 DEF TypeOK
<1>5. ValuesTyped'
  BY <1>1, <1>2 DEF ValuesTyped
<1>6. PlaceHolds' /\ EndHolds'
  BY <1>1, <1>2, <1>3 DEF PlaceHolds, EndHolds, Walking, Held
<1>7. LeftHolds'
  BY <1>1, <1>2 DEF LeftHolds
<1>8. AnswersHold'
  BY <1>1, KeptAnswers
<1>9. PassedHolds' /\ WalkHolds' /\ ListHolds' /\ PrintHolds'
  BY <1>1, <1>3 DEF PassedHolds, WalkHolds, ListHolds, PrintHolds, Walking, NeverAStranger,
                    ListsTheDirectory, Done
<1>10. RunHolds'
  <2>1. command = "run" /\ call >= 2 => answers[1] # Missing
    BY <1>2 DEF RunHolds
  <2>2. command = "run" /\ call = 4 /\ 2 \notin failed /\ answers[2].size > 0 =>
            /\ target["run"] = [file |-> answers[2].lba, whole |-> "yes"]
            /\ answers[2].lba \notin Signed \cap LittleEndian \cap ForX86
    BY <1>2 DEF RunHolds
  <2> QED
    BY <1>1, <2>1, <2>2 DEF RunHolds
<1>11. StrayHolds'
  <2>1. Doubtful' = Doubtful
    BY AskedKept
  <2> QED
    BY <1>1, <2>1 DEF StrayHolds, WildOnlyFor
<1> QED
  BY <1>4, <1>5, <1>6, <1>7, <1>8, <1>9, <1>10, <1>11 DEF IIInv

\* list ends: it has listed a directory, or there is none, or nobody can say.
LEMMA ListEndsIIInv ==
  ASSUME IIInv, pc \in {"directory", "last"}, command = "list", pc' = "prompt",
         UNCHANGED <<asked, call, depth, current, pvd, left, answers, target>>,
         failed \subseteq failed', failed' \subseteq 1 .. 4,
         buffer' \in DOMAIN Extent \cup {Junk},
         buffer' # Junk => \E d \in Dirs : d.lba = buffer',
         outcome' \in {"listed", "no such directory", "anything"},
         outcome' = "anything" => failed' # {} \/ Doubtful, ListsTheDirectory'
  PROVE  IIInv'
<1>1. /\ volume' = volume /\ command' = command /\ path' = path /\ answers' = answers
      /\ call' = call /\ target' = target /\ current' = current /\ depth' = depth
  BY DEF asked
<1>2. /\ TypeOK /\ ValuesTyped /\ PlaceHolds /\ LeftHolds /\ StrayHolds
      /\ answers = <<>> /\ DOMAIN answers = {}
  <2>1. TypeOK /\ ValuesTyped /\ PlaceHolds /\ LeftHolds /\ StrayHolds
    BY DEF IIInv
  <2>2. answers = <<>>
    BY <2>1 DEF PlaceHolds
  <2>3. DOMAIN answers = {}
    BY <2>1, <2>2, AnswersFacts, Zenon
  <2> QED
    BY <2>1, <2>2, <2>3
<1>3. TypeOK'
  BY <1>1, <1>2 DEF TypeOK
<1>4. ValuesTyped' /\ LeftHolds'
  BY <1>1, <1>2 DEF ValuesTyped, LeftHolds
<1>5. PlaceHolds'
  BY <1>1, <1>2 DEF PlaceHolds, Walking, Held
<1>6. EndHolds'
  BY <1>1 DEF EndHolds
<1>7. PassedHolds' /\ WalkHolds' /\ ListHolds' /\ RunHolds' /\ PrintHolds' /\ AnswersHold'
  BY <1>1, <1>2 DEF PassedHolds, WalkHolds, ListHolds, RunHolds, PrintHolds, AnswersHold,
                    Walking, NeverAStranger, Done
<1>8. StrayHolds'
  <2>1. Doubtful' = Doubtful
    BY AskedKept
  <2>2. current = Junk => call \in failed \/ Doubtful
    BY <1>2 DEF StrayHolds
  <2>3. Strayed' => outcome' = "anything" \/ current = Junk
    BY <1>1, <1>2 DEF Strayed, Done
  <2> QED
    BY <1>1, <2>1, <2>2, <2>3 DEF StrayHolds, WildOnlyFor
<1> QED
  BY <1>3, <1>4, <1>5, <1>6, <1>7, <1>8 DEF IIInv

\* The next directory is there, is missing, or nobody can say.
LEMMA DescendIIInv ==
  ASSUME IIInv, NEW ok \in BOOLEAN, Descend(ok)
  PROVE  IIInv'
<1> DEFINE part == path[depth + 1]
<1>1. /\ pc = "directory" /\ Failing(ok) /\ buffer' = After(ok)
      /\ UNCHANGED <<asked, call, pvd, left, answers, listing, target>>
      /\ UNCHANGED <<asked, call, left>> /\ UNCHANGED asked
      /\ volume' = volume /\ command' = command /\ path' = path
  BY DEF Descend, asked
<1>2. \/ /\ Matches(buffer', part, "dir") # {} /\ current' = Hit(buffer', part, "dir").lba
         /\ Onward /\ UNCHANGED outcome
      \/ Matches(buffer', part, "dir") = {} /\ NoSuchPart
      \/ RunsOut(buffer', part, "dir") /\ current' = Junk /\ Onward /\ UNCHANGED outcome
      \/ RunsOut(buffer', part, "dir") /\ pc' = "wild" /\ UNCHANGED <<depth, current, outcome>>
  BY Zenon DEF Descend
<1> HIDE DEF part
<1>3. Walking
  BY <1>1 DEF Walking
<1>4. /\ buffer' \in DOMAIN Extent \cup {Junk}
      /\ failed' \subseteq 1 .. 4 /\ failed \subseteq failed'
      /\ call \notin failed' => ok /\ failed' = failed /\ buffer' = current
      /\ failed' = {} => failed = {} /\ call \notin failed'
      /\ buffer' # Junk => \E d \in Dirs : d.lba = buffer'
  BY <1>1, <1>3, ReadFacts
<1>5. part = path[depth + 1]
  BY DEF part
<1>6. CASE /\ Matches(buffer', part, "dir") # {} /\ current' = Hit(buffer', part, "dir").lba
           /\ Onward /\ UNCHANGED outcome
  BY <1>1, <1>5, <1>6, GoesOnIIInv
<1>7. CASE Matches(buffer', part, "dir") = {} /\ NoSuchPart
  <2>1. CASE command # "list"
    <3>1. Onward /\ UNCHANGED outcome /\ current' = current
      BY <1>7, <2>1 DEF NoSuchPart
    <3> QED
      BY <1>1, <1>5, <1>7, <2>1, <3>1, GoesOnIIInv
  <2>2. CASE command = "list"
    <3>1. pc' = "prompt" /\ outcome' = "no such directory" /\ UNCHANGED <<depth, current>>
      BY <1>7, <2>2 DEF NoSuchPart, Finish
    <3>2. ListsTheDirectory'
      <4>1. ASSUME failed' = {}, volume = "iso", FirstDirectories(path, Parents) # {} PROVE FALSE
        <5>1. Reached
          BY <2>2, <4>1, PathFacts DEF Reached, IIInv
        <5>2. call \notin failed /\ buffer' = current
          BY <1>4, <4>1
        <5> QED
          BY <1>1, <1>5, <1>7, <5>1, <5>2, WayMatches
      <4>2. Parents' = Parents
        BY <1>1, AskedKept
      <4> QED
        BY <1>1, <3>1, <4>1, <4>2 DEF ListsTheDirectory
    <3> QED
      BY <1>1, <1>4, <2>2, <3>1, <3>2, ListEndsIIInv
  <2> QED
    BY <2>1, <2>2
<1>8. CASE RunsOut(buffer', part, "dir") /\ current' = Junk /\ Onward /\ UNCHANGED outcome
  BY <1>1, <1>5, <1>8, GoesOnIIInv
<1>9. CASE RunsOut(buffer', part, "dir") /\ pc' = "wild" /\ UNCHANGED <<depth, current, outcome>>
  <2>1. call \in failed' \/ Doubtful
    BY <1>1, <1>9, EndlessIsDoubtful DEF RunsOut
  <2>2. target' \in [{"run", "readfile"} -> [file : Nat \cup {Stray.lba}, whole : {"yes", "no"}]]
    BY <1>1 DEF IIInv, ValuesTyped
  <2>3. failed' # {} \/ Doubtful
    BY <2>1
  <2> QED
    BY <1>1, <1>4, <1>9, <2>2, <2>3, WildIIInv
<1> QED
  BY <1>2, <1>6, <1>7, <1>8, <1>9

\* list shows the directory's sector, or nobody can say what.
LEMMA ListDirectoryIIInv ==
  ASSUME IIInv, NEW ok \in BOOLEAN, ListDirectory(ok)
  PROVE  IIInv'
<1>1. /\ pc = "last" /\ command = "list" /\ Failing(ok) /\ buffer' = After(ok)
      /\ UNCHANGED <<asked, call, depth, current, pvd, left, answers, target>>
      /\ UNCHANGED <<asked, call, left>> /\ UNCHANGED asked
      /\ volume' = volume /\ command' = command /\ path' = path
  BY DEF ListDirectory, asked
<1>2. \/ listing' = In(buffer') /\ pc' = "prompt" /\ outcome' = "listed"
      \/ Endless(buffer') /\ pc' = "prompt" /\ outcome' = "anything"
      \/ Endless(buffer') /\ pc' = "wild" /\ UNCHANGED <<listing, outcome>>
  BY DEF ListDirectory, Finish
<1>3. Walking /\ TypeOK /\ PlaceHolds
  BY <1>1 DEF Walking, IIInv
<1>4. /\ buffer' \in DOMAIN Extent \cup {Junk}
      /\ failed' \subseteq 1 .. 4 /\ failed \subseteq failed'
      /\ call \notin failed' => ok /\ failed' = failed /\ buffer' = current
      /\ failed' = {} => failed = {} /\ call \notin failed'
      /\ buffer' # Junk => \E d \in Dirs : d.lba = buffer'
  BY <1>1, <1>3, ReadFacts
<1>5. Parents \in Nat /\ depth = Parents /\ Parents' = Parents /\ Doubtful' = Doubtful
  <2>1. Parents \in Nat
    BY <1>1, <1>3, PathFacts
  <2>2. depth = Parents
    BY <1>1, <1>3, <2>1 DEF PlaceHolds
  <2> QED
    BY <1>1, <2>1, <2>2, AskedKept
<1>6. Endless(buffer') => failed' # {} \/ Doubtful
  BY <1>1, EndlessIsDoubtful
<1>7. CASE listing' = In(buffer') /\ pc' = "prompt" /\ outcome' = "listed"
  <2>1. ASSUME failed' = {}, volume = "iso",
               FirstDirectories(path, Parents) # {} \/ ~Doubtful
        PROVE  \E d \in FirstDirectories(path, Parents) : listing' = Extent[d.lba]
    <3>1. failed = {} /\ call \notin failed /\ buffer' = current
      BY <1>4, <2>1
    <3>2. PICK d \in FirstDirectories(path, Parents) : d.lba = current
      <4>1. CASE ~Doubtful
        BY <1>1, <1>3, <1>5, <3>1, <4>1 DEF IIInv, ListHolds
      <4>2. CASE FirstDirectories(path, Parents) # {}
        <5>1. Reached
          BY <1>5, <2>1, <4>2 DEF Reached
        <5>2. OnTheWalk
          BY <1>3, <3>1, <5>1 DEF IIInv, WalkHolds, Clear
        <5>3. PICK d \in FirstDirectories(path, Parents) : TRUE
          BY <4>2
        <5>4. PICK v \in [0 .. Parents -> Dirs] : \E w \in Walks(path, Parents) :
                  /\ v[Parents] = d /\ \A k \in 0 .. Parents : w[k] = v[k].lba
          BY <1>5, <5>3, WayWalks
        <5>5. Parents \in 0 .. Parents
          BY <1>5
        <5>6. d.lba = current
          BY <1>5, <5>2, <5>4, <5>5 DEF OnTheWalk
        <5> QED
          BY <5>3, <5>6
      <4> QED
        BY <2>1, <4>1, <4>2
    <3>3. current \in DOMAIN Extent
      <4>1. d \in Dirs
        BY <1>5, <3>2, WayWalks
      <4> QED
        BY <3>2, <4>1, DirsFacts
    <3> QED
      BY <1>7, <3>1, <3>2, <3>3, InFacts
  <2>2. ListsTheDirectory'
    BY <1>1, <1>5, <1>7, <2>1 DEF ListsTheDirectory
  <2> QED
    BY <1>1, <1>4, <1>7, <2>2, ListEndsIIInv
<1>8. CASE Endless(buffer') /\ pc' = "prompt" /\ outcome' = "anything"
  <2>1. ListsTheDirectory'
    BY <1>8 DEF ListsTheDirectory
  <2> QED
    BY <1>1, <1>4, <1>6, <1>8, <2>1, ListEndsIIInv
<1>9. CASE Endless(buffer') /\ pc' = "wild" /\ UNCHANGED <<listing, outcome>>
  <2>1. target' \in [{"run", "readfile"} -> [file : Nat \cup {Stray.lba}, whole : {"yes", "no"}]]
    BY <1>1 DEF IIInv, ValuesTyped
  <2> QED
    BY <1>1, <1>4, <1>6, <1>9, <2>1, WildIIInv
<1> QED
  BY <1>2, <1>7, <1>8, <1>9

\* The lookup answers what the sector says of the name, or nobody can say what.
LEMMA FindFileIIInv ==
  ASSUME IIInv, NEW ok \in BOOLEAN, FindFile(ok)
  PROVE  IIInv'
<1>1. /\ pc = "last" /\ command # "list" /\ Failing(ok) /\ buffer' = After(ok)
      /\ UNCHANGED <<asked, call, depth, current, pvd, left, listing, target, outcome>>
      /\ UNCHANGED <<asked, call, left>> /\ UNCHANGED asked
      /\ volume' = volume /\ command' = command /\ path' = path
  BY DEF FindFile, asked
<1>2. /\ TypeOK /\ ValuesTyped /\ PlaceHolds /\ EndHolds /\ AnswersHold /\ StrayHolds /\ Walking
      /\ call \in 1 .. 4 /\ outcome = "none" /\ command \in {"findfile", "readfile", "run"}
      /\ Len(answers) = Nth - 1 /\ Nth \in 1 .. 3 /\ (call # 4 => Nth = call)
  <2>1. /\ TypeOK /\ ValuesTyped /\ PlaceHolds /\ EndHolds /\ AnswersHold /\ StrayHolds /\ Walking
    BY <1>1 DEF IIInv, Walking
  <2>2. call >= 1 /\ outcome = "none" /\ command # "discinfo" /\ Len(answers) = Nth - 1
    BY <1>1, <2>1 DEF PlaceHolds, EndHolds
  <2>3. call \in 0 .. 4 /\ command \in Commands
    BY <2>1 DEF TypeOK
  <2>4. call \in 1 .. 4 /\ Nth \in 1 .. 3 /\ (call # 4 => Nth = call)
    BY <2>2, <2>3 DEF Nth
  <2> QED
    BY <1>1, <2>1, <2>2, <2>3, <2>4 DEF Commands
<1>3. /\ buffer' \in DOMAIN Extent \cup {Junk}
      /\ failed' \subseteq 1 .. 4 /\ failed \subseteq failed'
      /\ call \notin failed' => ok /\ failed' = failed /\ buffer' = current
      /\ failed' = {} => failed = {} /\ call \notin failed'
      /\ buffer' # Junk => \E d \in Passed(path, depth, From') : d.lba = buffer'
      /\ buffer' # Junk => \E d \in Dirs : d.lba = buffer'
  BY <1>1, <1>2, ReadFacts
<1>4. /\ Parents' = Parents /\ Doubtful' = Doubtful /\ Clear' = Clear
      /\ \A b : Answer(b)' = Answer(b)
      /\ path # <<>> => Parents \in Nat /\ depth = Parents
      /\ path = <<>> => Doubtful
  <2>1. path # <<>> => Parents \in Nat
    BY <1>1, <1>2, PathFacts
  <2>2. path # <<>> => depth = Parents
    BY <1>1, <1>2, <2>1 DEF PlaceHolds
  <2>3. path = <<>> => Doubtful
    BY <1>1, <1>2, PathFacts DEF Doubtful
  <2> QED
    BY <1>1, <2>1, <2>2, <2>3, AskedKept
<1>5. (path # <<>> => RunsOut(buffer', Last(path), "file")) =>
          Answer(buffer') = Missing /\ (call \in failed' \/ Doubtful)
  <2>1. CASE path = <<>>
    BY <1>4, <2>1 DEF Answer
  <2>2. CASE RunsOut(buffer', Last(path), "file")
    BY <1>1, <2>2, EndlessIsDoubtful DEF RunsOut, Answer
  <2> QED
    BY <2>1, <2>2
<1>6. CASE (path # <<>> => RunsOut(buffer', Last(path), "file")) /\ pc' = "wild"
               /\ UNCHANGED answers
  <2>1. target' \in [{"run", "readfile"} -> [file : Nat \cup {Stray.lba}, whole : {"yes", "no"}]]
    BY <1>1, <1>2 DEF ValuesTyped
  <2>2. failed' # {} \/ Doubtful
    BY <1>5, <1>6
  <2> QED
    BY <1>1, <1>3, <1>6, <2>1, <2>2, WildIIInv
<1>7. ASSUME NEW a, answers' = Append(answers, a), pc' = "returned",
             \/ a = Answer(buffer')
             \/ a = Stray /\ (path # <<>> => RunsOut(buffer', Last(path), "file"))
      PROVE  IIInv'
  <2> DEFINE n == Len(answers)
  <2>1. /\ a \in Reply
        /\ a = Stray => Answer(buffer') = Missing /\ (call \in failed' \/ Doubtful)
        /\ a # Stray => a = Answer(buffer')
    <3>1. Answer(buffer') \in Reply \ {Stray}
      BY <1>3, AnswerFacts
    <3> QED
      BY <1>5, <1>7, <3>1 DEF Reply
  <2>2. /\ answers' \in Seq(Reply)
        /\ Len(answers') = n + 1 /\ n \in Nat /\ DOMAIN answers' = 1 .. n + 1
        /\ answers'[n + 1] = a /\ \A k \in 1 .. n : answers'[k] = answers[k]
    <3>1. ASSUME NEW S, NEW s \in Seq(S), NEW e \in S
          PROVE  /\ Append(s, e) \in Seq(S) /\ Len(Append(s, e)) = Len(s) + 1
                 /\ Len(s) \in Nat /\ DOMAIN Append(s, e) = 1 .. Len(s) + 1
                 /\ Append(s, e)[Len(s) + 1] = e
                 /\ \A k \in 1 .. Len(s) : Append(s, e)[k] = s[k]
      OBVIOUS
    <3>2. answers' = Append(answers, a) /\ answers \in Seq(Reply)
      BY <1>2, <1>7 DEF ValuesTyped
    <3> QED
      BY <2>1, <3>1, <3>2
  <2>3. DOMAIN answers = 1 .. n /\ n + 1 = Nth /\ n \in 0 .. 2
    BY <1>2, AnswersFacts
  <2>4. Found' = a
    BY <2>2 DEF Found, Last
  <2>5. Nth' = Nth /\ \A k : LookupOf(k)' = LookupOf(k)
    BY <1>1 DEF Nth, LookupOf
  <2> HIDE DEF n
  <2>6. TypeOK'
    <3>1. Len(answers') <= 3
      BY <2>2, <2>3
    <3> QED
      BY <1>1, <1>2, <1>3, <1>7, <3>1 DEF TypeOK
  <2>7. ValuesTyped'
    BY <1>1, <1>2, <2>2 DEF ValuesTyped
  <2>8. EndHolds'
    BY <1>1, <1>2 DEF EndHolds
  <2>9. PlaceHolds'
    BY <1>1, <1>2, <1>7, <2>2, <2>3, <2>5 DEF PlaceHolds, Walking, Held
  <2>10. LeftHolds'
    BY <1>1, <1>3, <1>7 DEF IIInv, LeftHolds
  <2>11. PassedHolds'
    <3>1. ASSUME a \notin {Missing, Stray}
          PROVE  \E d \in Passed(path, Parents, From') :
                     \E e \in Named(FirstEntries(d), Last(path), "file") : IsAnswer(a, e)
      <4>1. a = Answer(buffer') /\ a # Missing
        BY <2>1, <3>1
      <4>2. /\ path # <<>> /\ buffer' \in DOMAIN Extent
            /\ \E e \in FilesIn(ToSet(Extent[buffer'])) : IsAnswer(a, e)
        BY <1>3, <4>1, AnswerFacts
      <4>3. PICK d \in Passed(path, Parents, From') : d.lba = buffer'
        BY <1>3, <1>4, <4>2, SectorFacts
      <4> QED
        BY <4>2, <4>3 DEF FilesIn, FirstEntries
    <3>2. NeverAStranger'
      BY <1>1, <1>4, <2>4, <3>1 DEF NeverAStranger, From, FilesIn
    <3> QED
      BY <1>7, <3>2 DEF PassedHolds, Walking
  <2>12. WalkHolds' /\ ListHolds'
    BY <1>1, <1>7 DEF WalkHolds, ListHolds, Walking, ListsTheDirectory, Done
  <2>13. AnswersHold'
    <3>1. ASSUME NEW k \in 1 .. n + 1, LookupOf(k) \notin failed'
          PROVE  (Clear' => AnswersWalk(k)') /\ (answers'[k] = Stray => Doubtful')
      <4>1. CASE k \in 1 .. n
        <5>1. answers'[k] = answers[k] /\ k \in DOMAIN answers /\ LookupOf(k) \notin failed
          BY <1>3, <2>2, <2>3, <3>1, <4>1
        <5>2. (Clear => AnswersWalk(k)) /\ (answers[k] = Stray => Doubtful)
          BY <1>2, <5>1 DEF AnswersHold
        <5>3. AnswersWalk(k) => AnswersWalk(k)'
          BY <1>1, <1>4, <5>1 DEF AnswersWalk
        <5> QED
          BY <1>4, <5>1, <5>2, <5>3
      <4>2. CASE k = n + 1
        <5>1. LookupOf(k) = call /\ answers'[k] = a
          BY <1>2, <2>2, <2>3, <4>2 DEF LookupOf, Nth
        <5>2. call \notin failed' /\ buffer' = current /\ failed' = failed
          BY <1>3, <3>1, <5>1
        <5>3. a = Stray => Doubtful
          BY <2>1, <5>2
        <5>4. ASSUME Clear, NEW w \in Walks(path, Parents)
              PROVE  a = Answer(w[Parents])
                         \/ (a = Stray /\ Answer(w[Parents]) = Missing /\ Doubtful)
          <6>1. Answer(w[Parents]) = Answer(buffer')
            <7>1. CASE path = <<>>
              BY <7>1 DEF Answer
            <7>2. CASE path # <<>>
              <8>1. OnTheWalk
                BY <1>2, <5>2, <5>4 DEF IIInv, WalkHolds
              <8>2. w[Parents] = buffer'
                BY <1>4, <5>2, <7>2, <8>1 DEF OnTheWalk
              <8> QED
                BY <8>2
            <7> QED
              BY <7>1, <7>2
          <6> QED
            BY <2>1, <5>3, <6>1
        <5>5. Clear => AnswersWalk(k)'
          BY <1>1, <1>4, <5>1, <5>4 DEF AnswersWalk
        <5> QED
          BY <1>4, <5>1, <5>3, <5>5
      <4> QED
        BY <2>2, <4>1, <4>2
    <3> QED
      BY <2>2, <2>5, <3>1 DEF AnswersHold
  <2>14. StrayHolds'
    <3>1. current = Junk => call \in failed \/ Doubtful
      BY <1>1, <1>2 DEF StrayHolds
    <3>2. ASSUME NEW k \in 1 .. n + 1, answers'[k] = Stray PROVE failed' # {} \/ Doubtful
      <4>1. CASE k \in 1 .. n
        <5>1. Strayed
          BY <2>2, <2>3, <3>2, <4>1 DEF Strayed
        <5>2. failed # {} \/ Doubtful
          BY <1>1, <1>2, <5>1 DEF StrayHolds, WildOnlyFor
        <5> QED
          BY <1>3, <5>2
      <4>2. CASE k = n + 1
        BY <2>1, <2>2, <3>2, <4>2
      <4> QED
        BY <2>2, <4>1, <4>2
    <3>3. Strayed' => \E k \in 1 .. n + 1 : answers'[k] = Stray
      BY <1>7, <2>2 DEF Strayed, Done
    <3>4. WildOnlyFor'
      BY <1>4, <3>2, <3>3 DEF WildOnlyFor
    <3> QED
      BY <1>1, <1>3, <1>4, <3>1, <3>4 DEF StrayHolds
  <2>15. RunHolds'
    <3>1. call >= 2 => answers'[1] = answers[1]
      <4>1. call >= 2 => 1 \in 1 .. n
        BY <1>2, <2>3 DEF Nth
      <4> QED
        BY <2>2, <4>1
    <3>2. call = 4 => answers'[2] = answers[2]
      <4>1. call = 4 => 2 \in 1 .. n
        BY <1>2, <2>3 DEF Nth
      <4> QED
        BY <2>2, <4>1
    <3>3. RunHolds
      BY DEF IIInv
    <3> QED
      BY <1>1, <1>3, <1>7, <3>1, <3>2, <3>3 DEF RunHolds
  <2>16. PrintHolds'
    BY <1>1, <1>2, <1>7 DEF PrintHolds
  <2> QED
    BY <2>6, <2>7, <2>8, <2>9, <2>10, <2>11, <2>12, <2>13, <2>14, <2>15, <2>16 DEF IIInv
<1> QED
  BY <1>6, <1>7 DEF FindFile

\* What a lookup that has returned leaves for the command to use.
LEMMA HeldFacts ==
  ASSUME IIInv, Held
  PROVE  /\ TypeOK /\ ValuesTyped /\ call \in 1 .. 4 /\ outcome = "none"
         /\ Len(answers) = Nth /\ answers # <<>> /\ Found = answers[Nth] /\ Nth \in DOMAIN answers
         /\ Found \in Reply
         /\ command \in {"findfile", "readfile", "run"}
         /\ pc \in {"file", "resume"} => command \in {"readfile", "run"} /\ call # 4
         /\ command = "findfile" => call <= 2
         /\ command = "readfile" => call = 1
<1>1. TypeOK /\ ValuesTyped /\ PlaceHolds /\ EndHolds
  BY DEF IIInv
<1>2. /\ call >= 1 /\ outcome = "none" /\ Len(answers) = Nth
      /\ command \in {"findfile", "readfile", "run"}
      /\ pc \in {"file", "resume"} => command \in {"readfile", "run"} /\ call # 4
      /\ command = "findfile" => call <= 2
      /\ command = "readfile" => call <= 1
  BY <1>1 DEF PlaceHolds, EndHolds, Held
<1>3. call \in 0 .. 4
  BY <1>1 DEF TypeOK
<1>4. call \in 1 .. 4 /\ Nth \in 1 .. 3 /\ (command = "readfile" => call = 1)
  BY <1>2, <1>3 DEF Nth
<1>5. answers # <<>> /\ Found = answers[Nth] /\ Nth \in DOMAIN answers
  BY <1>1, <1>2, <1>4, AnswersFacts DEF Found, Last
<1> QED
  BY <1>1, <1>2, <1>4, <1>5, AnswersFacts

\* The command looks the file up again.
LEMMA LookupIIInv ==
  ASSUME IIInv, NEW n \in 2 .. 4, Lookup(n), Held, command \in {"findfile", "run"},
         Len(answers) = IF n = 4 THEN 2 ELSE n - 1, command = "findfile" => n = 2,
         RunHolds', UNCHANGED <<asked, answers, listing, target, outcome, failed>>
  PROVE  IIInv'
<1>1. /\ volume' = volume /\ command' = command /\ path' = path /\ answers' = answers
      /\ outcome' = outcome /\ failed' = failed /\ target' = target /\ n \in 1 .. 4
  BY DEF asked
<1>2. TypeOK /\ ValuesTyped /\ LeftHolds /\ outcome = "none"
  BY HeldFacts DEF IIInv
<1>3. /\ call' = n /\ pc' = "descriptor" /\ depth' = 0 /\ current' = Junk
      /\ left' \subseteq DOMAIN Extent \cup {PVD_sector}
      /\ pvd' \in {PVD_sector, Junk} /\ buffer' \in DOMAIN Extent \cup {Junk}
      /\ LeftHolds'
  BY <1>1, <1>2, LookupFacts
<1>4. TypeOK'
  <2>1. Len(path) \in Nat
    BY <1>2, PathFacts
  <2>2. depth' \in 0 .. Len(path') /\ call' \in 0 .. 4 /\ current' \in DOMAIN Extent \cup {Junk}
    BY <1>1, <1>3, <2>1
  <2>3. /\ command' \in Commands /\ path' \in Paths \cup {<<>>}
        /\ Len(answers') <= 3 /\ failed' \subseteq 1 .. 4
        /\ outcome' \in {"none", "valid", "not valid", "no such directory", "listed", "missing",
                         "found", "printed", "flat", "null", "undefined", "anything"}
    BY <1>1, <1>2, Zenon DEF TypeOK
  <2> QED
    BY <1>3, <2>2, <2>3 DEF TypeOK
<1>5. ValuesTyped' /\ EndHolds'
  BY <1>1, <1>2 DEF IIInv, ValuesTyped, EndHolds
<1>6. PlaceHolds'
  <2>1. Len(answers') = Nth' - 1
    <3>1. (IF n = 4 THEN 2 ELSE n - 1) = (IF n = 4 THEN 3 ELSE n) - 1
      OBVIOUS
    <3>2. Nth' = IF n = 4 THEN 3 ELSE n
      BY <1>3 DEF Nth
    <3>3. Len(answers') = IF n = 4 THEN 2 ELSE n - 1
      BY <1>1
    <3> QED
      BY <3>1, <3>2, <3>3
  <2> QED
    BY <1>1, <1>3, <2>1 DEF PlaceHolds, Walking, Held
<1>7. PassedHolds' /\ WalkHolds' /\ ListHolds' /\ PrintHolds'
  BY <1>1, <1>2, <1>3 DEF PassedHolds, WalkHolds, ListHolds, PrintHolds, Walking, NeverAStranger,
                          ListsTheDirectory, Done
<1>8. AnswersHold'
  <2>1. Len(answers) <= 2
    OBVIOUS
  <2>2. UNCHANGED <<asked, answers>> /\ failed \subseteq failed'
    BY <1>1
  <2> QED
    BY <2>1, <2>2, KeptAnswers
<1>9. StrayHolds'
  <2>1. Strayed' => \E k \in DOMAIN answers' : answers'[k] = Stray
    BY <1>1, <1>2, <1>3 DEF Strayed, Done
  <2>2. Strayed' => failed' # {} \/ Doubtful'
    <3>1. UNCHANGED <<asked, answers>> /\ failed \subseteq failed' /\ pc # "wild"
      BY <1>1 DEF Held
    <3> QED
      BY <2>1, <3>1, KeptStray
  <2> QED
    BY <1>3, <2>2 DEF StrayHolds, WildOnlyFor
<1> QED
  BY <1>3, <1>4, <1>5, <1>6, <1>7, <1>8, <1>9 DEF IIInv

\* The command ends.
LEMMA EndIIInv ==
  ASSUME IIInv, Held, NEW o, Finish(o), EndHolds', PrintHolds',
         o \in {"missing", "found", "printed", "flat", "null", "undefined", "anything"},
         UNCHANGED <<asked, lookup, answers, listing, target, failed>>
  PROVE  IIInv'
<1>1. /\ pc' = "prompt" /\ outcome' = o
      /\ volume' = volume /\ command' = command /\ path' = path /\ answers' = answers
      /\ call' = call /\ depth' = depth /\ current' = current /\ pvd' = pvd
      /\ buffer' = buffer /\ left' = left /\ target' = target /\ failed' = failed
      /\ UNCHANGED asked
  BY DEF Finish, asked, lookup
<1>2. /\ TypeOK /\ ValuesTyped /\ PlaceHolds /\ LeftHolds /\ StrayHolds /\ RunHolds
      /\ command # "list" /\ call >= 1 /\ command \in {"findfile", "readfile", "run"}
  BY HeldFacts DEF IIInv
<1>3. TypeOK' /\ ValuesTyped'
  BY <1>1, <1>2 DEF TypeOK, ValuesTyped
<1>4. PlaceHolds'
  BY <1>1, <1>2 DEF PlaceHolds, Walking, Held
<1>5. LeftHolds'
  BY <1>1, <1>2 DEF LeftHolds
<1>6. PassedHolds' /\ WalkHolds' /\ ListHolds'
  BY <1>1, <1>2 DEF PassedHolds, WalkHolds, ListHolds, Walking, NeverAStranger, ListsTheDirectory
<1>7. AnswersHold'
  BY <1>1, KeptAnswers
<1>8. RunHolds'
  BY <1>1, <1>2 DEF RunHolds
<1>9. StrayHolds'
  <2>1. current = Junk => call \in failed \/ Doubtful
    BY <1>2 DEF StrayHolds, Held
  <2>2. Doubtful' = Doubtful
    BY <1>1, AskedKept
  <2>3. o = "anything" => \E k \in DOMAIN answers' : answers'[k] = Stray
    BY <1>1, <1>2 DEF EndHolds
  <2>4. Strayed' => current = Junk \/ \E k \in DOMAIN answers' : answers'[k] = Stray
    BY <1>1, <2>3 DEF Strayed, Done
  <2>5. (\E k \in DOMAIN answers' : answers'[k] = Stray) => failed' # {} \/ Doubtful'
    <3>1. UNCHANGED <<asked, answers>> /\ failed \subseteq failed' /\ pc # "wild"
      BY <1>1 DEF Held
    <3> QED
      BY <3>1, KeptStray
  <2> QED
    BY <1>1, <2>1, <2>2, <2>4, <2>5 DEF StrayHolds, WildOnlyFor
<1> QED
  BY <1>3, <1>4, <1>5, <1>6, <1>7, <1>8, <1>9 DEF IIInv

\* What the command does with an answer.
LEMMA ReturnedIIInv == ASSUME IIInv, Returned PROVE IIInv'
<1>1. /\ pc = "returned" /\ UNCHANGED <<asked, answers, listing, target, failed>>
      /\ volume' = volume /\ command' = command /\ path' = path /\ Held /\ answers' = answers
      /\ UNCHANGED asked
  BY DEF Returned, asked, Held
<1>2. /\ TypeOK /\ ValuesTyped /\ call \in 1 .. 4 /\ outcome = "none"
      /\ Len(answers) = Nth /\ Found = answers[Nth] /\ Nth \in DOMAIN answers
      /\ command \in {"findfile", "readfile", "run"} /\ Found \in Reply
  BY <1>1, HeldFacts
<1>3. CASE command = "findfile" /\ call = 1 /\ Lookup(2) /\ UNCHANGED outcome
  <2>1. Len(answers) = 1 /\ RunHolds'
    BY <1>1, <1>2, <1>3 DEF Nth, RunHolds
  <2> QED
    BY <1>1, <1>3, <2>1, LookupIIInv
<1>4. CASE /\ command = "findfile" /\ call = 2
           /\ Finish(IF answers[1] = Stray THEN "anything"
                     ELSE IF answers[1].lba = 0 THEN "missing" ELSE "found")
           /\ UNCHANGED lookup
  <2>1. Len(answers) = 2 /\ 1 \in DOMAIN answers /\ answers[1] \in Reply
    BY <1>2, <1>4, AnswersFacts DEF Nth
  <2> DEFINE o == IF answers[1] = Stray THEN "anything"
                  ELSE IF answers[1].lba = 0 THEN "missing" ELSE "found"
  <2>2. /\ o \in {"missing", "found", "printed", "flat", "null", "undefined", "anything"}
        /\ Finish(o) /\ o \in {"missing", "found", "anything"}
        /\ o = "found" => answers[1] \notin {Missing, Stray}
        /\ o = "missing" => answers[1] = Missing
        /\ o = "anything" => answers[1] = Stray
    BY <1>4, <2>1, ReplyFacts
  <2> HIDE DEF o
  <2>3. EndHolds' /\ PrintHolds'
    BY <1>1, <1>4, <2>1, <2>2 DEF EndHolds, PrintHolds, Finish
  <2> QED
    BY <1>1, <1>4, <2>2, <2>3, EndIIInv
<1>5. CASE /\ command \in {"readfile", "run"} /\ Found # Missing /\ call # 4
           /\ pc' = "file" /\ UNCHANGED <<lookup, outcome>>
  <2>1. /\ call' = call /\ depth' = depth /\ current' = current /\ pvd' = pvd
        /\ buffer' = buffer /\ left' = left /\ outcome' = outcome /\ failed' = failed
        /\ target' = target
    BY <1>1, <1>5 DEF lookup
  <2>2. TypeOK' /\ ValuesTyped' /\ EndHolds' /\ LeftHolds'
    BY <1>1, <1>2, <1>5, <2>1 DEF IIInv, TypeOK, ValuesTyped, EndHolds, LeftHolds
  <2>3. PlaceHolds'
    <3>1. PlaceHolds /\ Nth' = Nth
      BY <2>1 DEF IIInv, Nth
    <3> QED
      BY <1>1, <1>2, <1>5, <2>1, <3>1 DEF PlaceHolds, Walking, Held
  <2>4. PassedHolds' /\ WalkHolds' /\ ListHolds' /\ PrintHolds'
    BY <1>5, <2>1, <1>2 DEF PassedHolds, WalkHolds, ListHolds, PrintHolds, Walking, NeverAStranger,
                      ListsTheDirectory, Done
  <2>5. AnswersHold'
    BY <1>1, <2>1, KeptAnswers
  <2>6. StrayHolds'
    <3>1. current = Junk => call \in failed \/ Doubtful
      BY <1>1, <1>5 DEF IIInv, StrayHolds
    <3>2. Doubtful' = Doubtful
      BY <1>1, AskedKept
    <3>3. Strayed' => \E k \in DOMAIN answers' : answers'[k] = Stray
      BY <1>5 DEF Strayed, Done
    <3>4. Strayed' => failed' # {} \/ Doubtful'
      <4>1. UNCHANGED <<asked, answers>> /\ failed \subseteq failed' /\ pc # "wild"
        BY <1>1, <2>1
      <4> QED
        BY <3>3, <4>1, KeptStray
    <3> QED
      BY <1>1, <1>5, <2>1, <3>1, <3>2, <3>4 DEF StrayHolds, WildOnlyFor
  <2>7. RunHolds'
    <3>1. command = "run" => answers[1] # Missing
      <4>1. CASE call = 1
        BY <1>2, <1>5, <4>1 DEF Nth
      <4>2. CASE call >= 2
        BY <4>2 DEF IIInv, RunHolds
      <4> QED
        BY <1>2, <4>1, <4>2
    <3> QED
      BY <1>1, <1>5, <2>1, <3>1 DEF RunHolds
  <2> QED
    BY <2>2, <2>3, <2>4, <2>5, <2>6, <2>7 DEF IIInv
<1>6. CASE command = "readfile" /\ Finish("missing") /\ UNCHANGED lookup
  <2>1. EndHolds' /\ PrintHolds'
    BY <1>1, <1>6 DEF EndHolds, PrintHolds, Finish
  <2> QED
    BY <1>1, <1>6, <2>1, EndIIInv
<1>7. CASE /\ command = "run" /\ UNCHANGED lookup
           /\ Finish(IF call = 1 THEN "missing" ELSE "null")
  <2> DEFINE o == IF call = 1 THEN "missing" ELSE "null"
  <2>1. Finish(o) /\ o \in {"missing", "null"}
        /\ o \in {"missing", "found", "printed", "flat", "null", "undefined", "anything"}
    BY <1>7
  <2> HIDE DEF o
  <2>2. EndHolds' /\ PrintHolds'
    BY <1>1, <1>7, <2>1 DEF EndHolds, PrintHolds, Finish
  <2> QED
    BY <1>1, <1>7, <2>1, <2>2, EndIIInv
<1>8. CASE command = "run" /\ Found = Missing /\ call = 2 /\ Lookup(4) /\ UNCHANGED outcome
  <2>1. Len(answers) = 2 /\ answers[2] = Missing
    <3>1. Nth = 2
      BY <1>8 DEF Nth
    <3> QED
      BY <1>2, <1>8, <3>1
  <2>2. ~(answers'[2].size > 0)
    BY <1>1, <2>1 DEF Missing
  <2>3. answers'[1] # Missing
    BY <1>1, <1>8 DEF IIInv, RunHolds
  <2>4. RunHolds'
    BY <2>2, <2>3 DEF RunHolds
  <2> QED
    BY <1>1, <1>8, <2>1, <2>4, LookupIIInv
<1>9. CASE command = "run" /\ call = 4 /\ Finish("flat") /\ UNCHANGED lookup
  <2>1. Len(answers) = 3
    BY <1>2, <1>9 DEF Nth
  <2>2. EndHolds' /\ PrintHolds'
    BY <1>1, <1>9, <2>1 DEF EndHolds, PrintHolds, Finish, lookup
  <2> QED
    BY <1>1, <1>9, <2>2, EndIIInv
<1> QED
  BY <1>3, <1>4, <1>5, <1>6, <1>7, <1>8, <1>9 DEF Returned

\* How many sectors a file has: as many as it needs, and no more than a buffer of
\* whole sectors has if it fits there.
LEMMA FileSectorsFacts ==
  ASSUME NEW size \in Nat
  PROVE  /\ FileSectors(size) \in Nat /\ FileSectors(size) * SectorUnits \in Nat
         /\ size > 0 => FileSectors(size) # 0
         /\ size <= FileSectors(size) * SectorUnits
         /\ size % SectorUnits # 0 => size < FileSectors(size) * SectorUnits
         /\ size <= BufUnits => FileSectors(size) * SectorUnits <= BufUnits
<1> DEFINE U == SectorUnits
           s == FileSectors(size)
<1>1. U \in Nat /\ U > 0 /\ BufUnits \in Nat /\ BufUnits % U = 0
  BY IsoAssumption
<1>2. s \in Nat /\ s * U <= size + (U - 1) /\ size + (U - 1) < s * U + U
  <2>1. size + (U - 1) \in Nat /\ s = (size + (U - 1)) \div U
    BY <1>1 DEF FileSectors
  <2> HIDE DEF U, s
  <2> QED
    BY <1>1, <2>1, DivFacts
<1> HIDE DEF U, s
<1>3. ASSUME size > 0 PROVE s # 0
  <2>1. 0 * U = 0
    BY <1>1
  <2> QED
    BY <1>1, <1>2, <1>3, <2>1
<1>4. s * U \in Nat
  BY <1>1, <1>2
<1>5. size <= s * U
  BY <1>1, <1>2, <1>4
<1>6. ASSUME size % U # 0 PROVE size < s * U
  <2>1. ASSUME NEW a \in Nat, NEW b \in Nat, b > 0 PROVE (a * b) % b = 0
    BY <2>1, SMT
  <2>2. (s * U) % U = 0
    BY <1>1, <1>2, <2>1
  <2>3. ASSUME NEW a, NEW b, (a % U) # 0, b % U = 0 PROVE a # b
    BY <2>3
  <2> QED
    BY <1>4, <1>5, <1>6, <2>2, <2>3
<1>7. ASSUME size <= BufUnits PROVE s * U <= BufUnits
  <2> DEFINE q == BufUnits \div U
  <2>1. q \in Nat /\ BufUnits = q * U
    BY <1>1, SMT
  <2> HIDE DEF q
  <2>2. s * U < q * U + U
    BY <1>1, <1>2, <1>4, <1>7, <2>1
  <2>3. s <= q
    <3>1. ASSUME s >= q + 1 PROVE FALSE
      <4>1. s * U >= (q + 1) * U
        BY <1>1, <1>2, <2>1, <3>1, SMT
      <4>2. (q + 1) * U = q * U + U /\ q * U \in Nat
        BY <1>1, <2>1, SMT
      <4> QED
        BY <1>1, <1>4, <2>2, <4>1, <4>2
    <3> QED
      BY <1>2, <2>1, <3>1
  <2>4. s * U <= q * U
    BY <1>1, <1>2, <2>1, <2>3, SMT
  <2> QED
    BY <2>1, <2>4
<1> QED
  BY <1>2, <1>3, <1>4, <1>5, <1>6, <1>7 DEF s, U

\* A file is read, whole or not; stray numbers may overwrite anything.
LEMMA ReadFileIIInv == ASSUME IIInv, NEW ok \in BOOLEAN, ReadFile(ok) PROVE IIInv'
<1> DEFINE Kept == [file : Nat \cup {Stray.lba}, whole : {"yes", "no"}]
           all == [file |-> Found.lba, whole |-> "yes"]
           some == [file |-> Found.lba, whole |-> "no"]
           sectors == FileSectors(Found.size)
           before == target[command]
<1>1. /\ pc = "file" /\ Failing(ok) /\ Held
      /\ UNCHANGED <<asked, answers>> /\ UNCHANGED asked /\ UNCHANGED listing
      /\ volume' = volume /\ command' = command /\ path' = path /\ answers' = answers
      /\ call' = call /\ depth' = depth /\ current' = current /\ pvd' = pvd
      /\ buffer' = buffer /\ left' = left /\ outcome' = outcome
      /\ pc' = "resume" \/ (pc' = "wild" /\ Found = Stray)
  BY DEF ReadFile, asked, Held, lookup
<1>2. /\ TypeOK /\ ValuesTyped /\ call \in 1 .. 3 /\ outcome = "none"
      /\ Len(answers) = Nth /\ Found = answers[Nth] /\ Nth \in DOMAIN answers /\ Found \in Reply
      /\ command \in {"readfile", "run"} /\ call # 4
  <2>1. call \in 1 .. 4 /\ call # 4
    BY <1>1, HeldFacts
  <2> QED
    BY <1>1, <2>1, HeldFacts
<1>3. /\ failed' \subseteq 1 .. 4 /\ failed \subseteq failed'
      /\ failed' = {} => ok /\ failed = {}
      /\ ~ok => call \in failed'
  BY <1>1, <1>2, FailingFacts
<1>4. PICK now \in {before, all, some} :
          /\ target' = [target EXCEPT ![command] = now]
          /\ ok /\ Found # Stray /\ sectors # 0 => now = all
  BY DEF ReadFile
<1>5. target' \in [{"run", "readfile"} -> Kept] /\ target'[command] = now
  <2>1. target \in [{"run", "readfile"} -> Kept]
    BY <1>2 DEF ValuesTyped
  <2>2. Found.lba \in Nat \cup {Stray.lba}
    BY <1>2, ReplyFacts
  <2>3. before \in Kept /\ all \in Kept /\ some \in Kept
    BY <1>2, <2>1, <2>2
  <2> HIDE DEF before, all, some, sectors, Kept
  <2> QED
    BY <1>2, <1>4, <2>1, <2>3
<1>6. ok /\ Found.size > 0 => now = all
  <2>1. Found.size > 0 => Found # Stray /\ Found.size \in Nat
    BY <1>2, ReplyFacts
  <2> QED
    BY <1>4, <2>1, FileSectorsFacts
<1>7. Found' = Found /\ Nth' = Nth
  BY <1>1 DEF Found, Nth
<1> HIDE DEF before, some, sectors
<1>8. CASE pc' = "wild" /\ Found = Stray
  <2>1. Strayed
    BY <1>2, <1>8 DEF Strayed
  <2>2. failed' # {} \/ Doubtful
    BY <1>1, <1>3, <2>1 DEF IIInv, StrayHolds, WildOnlyFor
  <2>3. buffer' \in DOMAIN Extent \cup {Junk} /\ (buffer' # Junk => \E d \in Dirs : d.lba = buffer')
    BY <1>1, <1>2 DEF IIInv, LeftHolds, TypeOK
  <2> QED
    BY <1>1, <1>2, <1>3, <1>5, <1>8, <2>2, <2>3, WildIIInv
<1>9. CASE pc' = "resume"
  <2>1. TypeOK' /\ EndHolds' /\ LeftHolds'
    BY <1>1, <1>2, <1>3, <1>9 DEF IIInv, TypeOK, EndHolds, LeftHolds
  <2>2. ValuesTyped'
    BY <1>1, <1>2, <1>5 DEF ValuesTyped
  <2>3. PlaceHolds'
    BY <1>1, <1>2, <1>7, <1>9 DEF IIInv, PlaceHolds, Walking, Held
  <2>4. PassedHolds' /\ WalkHolds' /\ ListHolds'
    BY <1>9 DEF PassedHolds, WalkHolds, ListHolds, Walking, NeverAStranger, ListsTheDirectory, Done
  <2>5. AnswersHold'
    BY <1>1, <1>3, KeptAnswers
  <2>6. StrayHolds'
    <3>1. current = Junk => call \in failed \/ Doubtful
      BY <1>1, <1>2 DEF IIInv, StrayHolds
    <3>2. Doubtful' = Doubtful
      BY <1>1, AskedKept
    <3>3. Strayed' => \E k \in DOMAIN answers' : answers'[k] = Stray
      BY <1>9 DEF Strayed, Done
    <3>4. Strayed' => failed' # {} \/ Doubtful'
      <4>1. pc # "wild"
        BY <1>1
      <4> QED
        BY <1>1, <1>3, <3>3, <4>1, KeptStray
    <3> QED
      BY <1>1, <1>3, <3>1, <3>2, <3>4 DEF StrayHolds, WildOnlyFor
  <2>7. RunHolds'
    <3>1. command = "run" => answers[1] # Missing
      BY <1>1 DEF IIInv, RunHolds
    <3>2. call = 2 => Found = answers[2]
      BY <1>2 DEF Nth
    <3> QED
      BY <1>1, <1>2, <1>3, <1>5, <1>6, <3>1, <3>2 DEF RunHolds
  <2>8. PrintHolds'
    BY <1>1, <1>3, <1>5, <1>6, <1>7 DEF PrintHolds
  <2> QED
    BY <2>1, <2>2, <2>3, <2>4, <2>5, <2>6, <2>7, <2>8 DEF IIInv
<1> QED
  BY <1>1, <1>8, <1>9

\* readfile prints, or reads past the buffer of a file that is too large.
LEMMA ShowIIInv == ASSUME IIInv, Show PROVE IIInv'
<1>1. /\ pc = "resume" /\ command = "readfile" /\ Held
      /\ UNCHANGED <<asked, lookup, answers, listing, target, failed>> /\ UNCHANGED asked
      /\ volume' = volume /\ command' = command /\ path' = path /\ answers' = answers
      /\ call' = call /\ depth' = depth /\ current' = current /\ pvd' = pvd
      /\ buffer' = buffer /\ left' = left /\ target' = target /\ failed' = failed
  BY DEF Show, asked, Held, lookup
<1>2. /\ TypeOK /\ ValuesTyped /\ call = 1 /\ outcome = "none"
      /\ Len(answers) = Nth /\ answers # <<>> /\ Found \in Reply
      /\ Found = answers[Nth] /\ Nth \in DOMAIN answers
  BY <1>1, HeldFacts
<1>3. Found' = Found /\ Nth' = Nth /\ Nth = 1 /\ (Found # Stray => Found.size \in Nat)
  BY <1>1, <1>2, ReplyFacts DEF Found, Nth
<1>4. CASE Found = Stray /\ Finish("anything")
  <2>1. EndHolds' /\ PrintHolds'
    BY <1>1, <1>2, <1>3, <1>4 DEF EndHolds, PrintHolds, Finish
  <2> QED
    BY <1>1, <1>4, <2>1, EndIIInv
<1>5. CASE Found # Stray /\ FileSectors(Found.size) * SectorUnits <= BufUnits /\ Finish("printed")
  <2>1. EndHolds'
    BY <1>1, <1>2, <1>3, <1>5 DEF EndHolds, Finish
  <2>2. PrintHolds'
    BY <1>1, <1>3, <1>5 DEF IIInv, PrintHolds
  <2> QED
    BY <1>1, <1>5, <2>1, <2>2, EndIIInv
<1>6. CASE /\ Found # Stray /\ FileSectors(Found.size) * SectorUnits > BufUnits
           /\ pc' = "wild" /\ UNCHANGED outcome
  <2>1. Found.size > BufUnits
    <3>1. FileSectors(Found.size) * SectorUnits \in Nat /\ BufUnits \in Nat
      BY <1>3, <1>6, FileSectorsFacts, IsoAssumption
    <3> QED
      BY <1>3, <1>6, <3>1, FileSectorsFacts
  <2>2. /\ buffer' \in DOMAIN Extent \cup {Junk}
        /\ buffer' # Junk => \E d \in Dirs : d.lba = buffer'
        /\ failed' \subseteq 1 .. 4 /\ failed \subseteq failed'
    BY <1>1, <1>2 DEF IIInv, LeftHolds, TypeOK
  <2>3. target' \in [{"run", "readfile"} -> [file : Nat \cup {Stray.lba}, whole : {"yes", "no"}]]
    BY <1>1, <1>2 DEF ValuesTyped
  <2> QED
    BY <1>1, <1>2, <1>6, <2>1, <2>2, <2>3, WildIIInv
<1> QED
  BY <1>4, <1>5, <1>6 DEF Show

\* `run` takes its next step after a read.
LEMMA RunIIInv == ASSUME IIInv, Run PROVE IIInv'
<1>1. /\ pc = "resume" /\ command = "run" /\ Held
      /\ UNCHANGED <<asked, answers, listing, target, failed>>
      /\ volume' = volume /\ command' = command /\ path' = path /\ answers' = answers
      /\ target' = target /\ failed' = failed
  BY DEF Run, asked, Held
<1>2. /\ TypeOK /\ ValuesTyped /\ call \in 1 .. 3 /\ outcome = "none" /\ Len(answers) = Nth
      /\ answers[1] # Missing
  <2>1. call \in 1 .. 4 /\ call # 4
    BY <1>1, HeldFacts
  <2> QED
    BY <1>1, <2>1, HeldFacts DEF IIInv, RunHolds
<1>3. call # 4 => Nth = call
  BY DEF Nth
<1>4. CASE call = 1 /\ Lookup(2) /\ UNCHANGED outcome
  <2>1. Len(answers) = 1 /\ RunHolds'
    BY <1>1, <1>2, <1>3, <1>4 DEF RunHolds, Lookup
  <2> QED
    BY <1>1, <1>4, <2>1, LookupIIInv
<1>5. CASE call = 2 /\ Lookup(3) /\ UNCHANGED outcome
  <2>1. Len(answers) = 2 /\ RunHolds'
    BY <1>1, <1>2, <1>3, <1>5 DEF RunHolds, Lookup
  <2> QED
    BY <1>1, <1>5, <2>1, LookupIIInv
<1>6. CASE call = 2 /\ FALSE \in IsElf /\ Lookup(4) /\ UNCHANGED outcome
  <2>1. Len(answers) = 2
    BY <1>2, <1>3, <1>6
  <2>2. ASSUME 2 \notin failed, answers[2].size > 0
        PROVE  /\ target["run"] = [file |-> answers[2].lba, whole |-> "yes"]
               /\ answers[2].lba \notin Signed \cap LittleEndian \cap ForX86
    <3>1. target["run"] = [file |-> answers[2].lba, whole |-> "yes"]
      BY <1>1, <1>6, <2>2 DEF IIInv, RunHolds
    <3>2. answers[2] \in Reply
      BY <1>2, <2>1, AnswersFacts
    <3>3. answers[2].lba \in Nat \ {0}
      BY <2>2, <3>2, ReplyFacts
    <3>4. target["run"].file \notin {Old.file, Stray.lba}
      BY <3>1, <3>3 DEF Old, Stray
    <3>5. IsElf = {(target["run"].file \in Signed \cap LittleEndian \cap ForX86)}
      BY <3>4, Zenon DEF IsElf
    <3>6. target["run"].file \notin Signed \cap LittleEndian \cap ForX86
      BY <1>6, <3>5, Zenon
    <3>7. target["run"].file = answers[2].lba
      BY <3>1
    <3> QED
      BY <3>1, <3>6, <3>7, Zenon
  <2>3. RunHolds'
    BY <1>1, <1>2, <2>2 DEF RunHolds
  <2> QED
    BY <1>1, <1>6, <2>1, <2>3, LookupIIInv
<1>7. ASSUME NEW o \in {"undefined", "null"}, Finish(o), UNCHANGED lookup PROVE IIInv'
  <2>1. EndHolds' /\ PrintHolds'
    BY <1>1, <1>7 DEF EndHolds, PrintHolds, Finish
  <2> QED
    BY <1>1, <1>7, <2>1, EndIIInv
<1> QED
  BY <1>4, <1>5, <1>6, <1>7 DEF Run

\* Every step keeps the inductive invariant.
LEMMA StepIIInv == IIInv /\ [Next]_vars => IIInv'
<1> SUFFICES ASSUME IIInv, [Next]_vars PROVE IIInv'
  OBVIOUS
<1>1. CASE Next
  BY <1>1, EnterIIInv, DescriptorIIInv, ReadRootIIInv, DescendIIInv, FindFileIIInv,
     ListDirectoryIIInv, ReadFileIIInv, ReturnedIIInv, ShowIIInv, RunIIInv DEF Next
<1>2. CASE UNCHANGED vars
  <2>1. /\ UNCHANGED <<asked, answers, failed>> /\ UNCHANGED asked
        /\ volume' = volume /\ command' = command /\ path' = path /\ pc' = pc /\ call' = call
        /\ depth' = depth /\ current' = current /\ pvd' = pvd /\ buffer' = buffer /\ left' = left
        /\ answers' = answers /\ listing' = listing /\ target' = target /\ outcome' = outcome
        /\ failed' = failed
    BY <1>2 DEF vars, asked
  <2>2. /\ Walking' = Walking /\ Held' = Held /\ Nth' = Nth /\ Found' = Found /\ Done' = Done
        /\ LeftDirectories' = LeftDirectories /\ From' = From
    BY <2>1 DEF Walking, Held, Nth, Found, Done, LeftDirectories, From
  <2>3. /\ Parents' = Parents /\ Doubtful' = Doubtful /\ Clear' = Clear
    BY <2>1, AskedKept
  <2>4. TypeOK' /\ ValuesTyped' /\ EndHolds' /\ LeftHolds'
    <3>1. TypeOK' /\ ValuesTyped'
      BY <2>1 DEF IIInv, TypeOK, ValuesTyped
    <3>2. EndHolds'
      BY <2>1, <2>2, Zenon DEF IIInv, EndHolds
    <3>3. LeftHolds'
      BY <2>1 DEF IIInv, LeftHolds
    <3> QED
      BY <3>1, <3>2, <3>3
  <2>5. PlaceHolds'
    BY <2>1, <2>2, <2>3, Zenon DEF IIInv, PlaceHolds
  <2>6. PassedHolds'
    BY <2>1, <2>2, <2>3 DEF IIInv, PassedHolds, NeverAStranger, FilesIn
  <2>7. WalkHolds'
    <3>1. OnTheWalk => OnTheWalk'
      BY <2>1, <2>3 DEF OnTheWalk
    <3> QED
      BY <2>1, <2>2, <2>3, <3>1 DEF IIInv, WalkHolds
  <2>8. AnswersHold'
    BY <2>1, KeptAnswers
  <2>9. StrayHolds'
    <3>1. Strayed' = Strayed
      BY <2>1, <2>2 DEF Strayed
    <3> QED
      BY <2>1, <2>2, <2>3, <3>1 DEF IIInv, StrayHolds, WildOnlyFor
  <2>10. ListHolds' /\ RunHolds' /\ PrintHolds'
    BY <2>1, <2>2, <2>3 DEF IIInv, ListHolds, ListsTheDirectory, RunHolds, PrintHolds
  <2> QED
    BY <2>4, <2>5, <2>6, <2>7, <2>8, <2>9, <2>10 DEF IIInv
<1> QED
  BY <1>1, <1>2

\* Every reachable state satisfies the inductive invariant: a lookup, also one with
\* what earlier lookups left on the stack in its buffers, is in directories that
\* parts of the path lead to, from the root or from where those lookups ended.
THEOREM LookupsFollowThePath == Spec => []IIInv
<1>1. Init => IIInv
  BY InitIIInv
<1>2. IIInv /\ [Next]_vars => IIInv'
  BY StepIIInv
<1> QED
  BY <1>1, <1>2, PTL DEF Spec

(***************************************************************************)
(* What follows for the commands.                                          *)
(***************************************************************************)

\* Where the path's directories are there, a lookup of which no read fails answers
\* what the last of them has in its first sector.
LEMMA WayAnswers ==
  ASSUME IIInv, Reached, NEW k \in DOMAIN answers, LookupOf(k) \notin failed,
         NEW d \in FirstDirectories(path, Parents)
  PROVE  /\ answers[k] \notin {Missing, Stray} =>
                \E e \in FilesIn(FirstEntries(d)) : IsAnswer(answers[k], e)
         /\ answers[k] \in {Missing, Stray} => FilesIn(FirstEntries(d)) = {}
         /\ answers[k] = Stray => Doubtful
<1>1. TypeOK /\ ValuesTyped /\ PlaceHolds /\ AnswersHold
  BY DEF IIInv
<1>2. Parents \in Nat /\ path # <<>>
  <2>1. answers # <<>>
    BY <1>1, AnswersFacts, Zenon
  <2>2. command # "list"
    BY <1>1, <2>1 DEF PlaceHolds
  <2>3. Parents \in Int /\ Parents >= 0
    BY <1>1, PathFacts DEF Reached
  <2> QED
    BY <1>1, <2>2, <2>3, PathFacts
<1>3. AnswersWalk(k) /\ (answers[k] = Stray => Doubtful)
  BY <1>1 DEF AnswersHold, Clear
<1>4. PICK v \in [0 .. Parents -> Dirs], w \in Walks(path, Parents) :
           v[Parents] = d /\ \A n \in 0 .. Parents : w[n] = v[n].lba
  BY <1>2, WayWalks
<1>5. w[Parents] = d.lba /\ d.lba \in DOMAIN Extent
  <2>1. Parents \in 0 .. Parents
    BY <1>2
  <2>2. d \in Dirs
    BY <1>4, <2>1
  <2> QED
    BY <1>4, <2>1, <2>2, DirsFacts
<1>6. answers[k] = Answer(d.lba) \/ (answers[k] = Stray /\ Answer(d.lba) = Missing)
  BY <1>3, <1>4, <1>5 DEF AnswersWalk
<1>7. /\ Answer(d.lba) # Stray
      /\ Answer(d.lba) = Missing => FilesIn(FirstEntries(d)) = {}
      /\ Answer(d.lba) # Missing =>
             \E e \in FilesIn(FirstEntries(d)) : IsAnswer(Answer(d.lba), e)
  BY <1>2, <1>5, AnswerFacts DEF FirstEntries
<1>8. CASE answers[k] = Answer(d.lba)
  BY <1>3, <1>7, <1>8
<1>9. CASE answers[k] = Stray /\ Answer(d.lba) = Missing
  BY <1>3, <1>7, <1>9
<1> QED
  BY <1>6, <1>8, <1>9

\* Where no walk is doubtful, lookups of which no read fails answer the same.
LEMMA SameAnswers ==
  ASSUME IIInv, ~Doubtful, failed = {}, NEW j \in DOMAIN answers, NEW k \in DOMAIN answers
  PROVE  answers[j] = answers[k]
<1>1. TypeOK /\ AnswersHold
  BY DEF IIInv
<1>2. Parents \in Nat
  BY <1>1, PathFacts DEF Doubtful
<1>3. PICK w : w \in Walks(path, Parents)
  BY <1>2, WalkExists
<1>4. AnswersWalk(j) /\ AnswersWalk(k)
  BY <1>1 DEF AnswersHold, Clear
<1> QED
  BY <1>3, <1>4 DEF AnswersWalk

\* findfile's two properties.
LEMMA FindsFromIIInv == IIInv => FindsTheFile /\ OneFileFound
<1> SUFFICES ASSUME IIInv, Done, command = "findfile", failed = {}
    PROVE  /\ Reached => IF outcome = "found" THEN \E e \in FirstFiles : IsAnswer(Found, e)
                         ELSE FirstFiles = {}
           /\ answers[1] # answers[2] => Doubtful
  BY DEF FindsTheFile, OneFileFound
<1>1. /\ Len(answers) = 2 /\ outcome \in {"found", "missing", "anything"}
      /\ outcome = "found" => answers[1] \notin {Missing, Stray}
      /\ outcome # "found" => answers[1] \in {Missing, Stray}
  BY DEF IIInv, EndHolds, Done
<1>2. /\ 1 \in DOMAIN answers /\ 2 \in DOMAIN answers /\ Found = answers[2]
      /\ LookupOf(1) \notin failed /\ LookupOf(2) \notin failed
  BY <1>1, AnswersFacts DEF IIInv, Found, Last
<1>3. ASSUME Reached, outcome = "found" PROVE \E e \in FirstFiles : IsAnswer(Found, e)
  <2>1. PICK d \in FirstDirectories(path, Parents) : TRUE
    BY <1>3 DEF Reached
  <2>2. FilesIn(FirstEntries(d)) # {}
    BY <1>1, <1>2, <1>3, WayAnswers
  <2>3. Found \notin {Missing, Stray}
    BY <1>2, <1>3, <2>2, WayAnswers
  <2>4. PICK e \in FilesIn(FirstEntries(d)) : IsAnswer(Found, e)
    BY <1>2, <1>3, <2>3, WayAnswers
  <2>5. e \in FirstFiles
    BY <2>4 DEF FirstFiles
  <2> QED
    BY <2>4, <2>5
<1>4. ASSUME Reached, outcome # "found" PROVE FirstFiles = {}
  <2>1. ASSUME NEW d \in FirstDirectories(path, Parents) PROVE FilesIn(FirstEntries(d)) = {}
    BY <1>1, <1>2, <1>4, WayAnswers
  <2> QED
    BY <2>1 DEF FirstFiles
<1>5. answers[1] # answers[2] => Doubtful
  BY <1>2, SameAnswers
<1> QED
  BY <1>3, <1>4, <1>5

\* readfile's: it is the file, and the zeros that pad the last sector end the text.
LEMMA PrintsFromIIInv == IIInv => PrintsTheFile
<1> SUFFICES ASSUME IIInv, Done, outcome = "printed", failed = {}, Reached,
                    Found.size % SectorUnits # 0
             PROVE  /\ \E e \in FirstFiles : IsAnswer(Found, e)
                    /\ Printed = 0 .. Found.size - 1
  BY DEF PrintsTheFile
<1> DEFINE size == Found.size
           end == FileSectors(size) * SectorUnits
<1>1. /\ command = "readfile" /\ Len(answers) = 1 /\ end <= BufUnits /\ ValuesTyped
      /\ Found # Stray
  BY DEF IIInv, EndHolds
<1>2. Found = answers[1] /\ 1 \in DOMAIN answers /\ Found \in Reply /\ LookupOf(1) = 1
  BY <1>1, AnswersFacts DEF Found, Last, LookupOf
<1>3. size > 0 /\ size \in Nat /\ Found # Missing
  <2>1. 0 % SectorUnits = 0
    BY IsoAssumption, SMT
  <2>2. size # 0
    BY <2>1
  <2>3. size \in Nat /\ Missing.size = 0
    BY <1>1, <1>2, ReplyFacts
  <2> QED
    BY <2>2, <2>3
<1>4. end \in Nat /\ size < end /\ BufUnits \in Nat
  BY <1>3, FileSectorsFacts, IsoAssumption
<1>5. target["readfile"] = [file |-> Found.lba, whole |-> "yes"]
  BY <1>1, <1>3 DEF IIInv, PrintHolds
<1>6. /\ \A u \in Nat : u < size => Piece(u) = "file"
      /\ Piece(size) = "zero"
  BY <1>3, <1>4, <1>5 DEF Piece
<1>7. \E e \in FirstFiles : IsAnswer(Found, e)
  <2>1. PICK d \in FirstDirectories(path, Parents) : TRUE
    BY DEF Reached
  <2>2. PICK e \in FilesIn(FirstEntries(d)) : IsAnswer(Found, e)
    BY <1>1, <1>2, <1>3, WayAnswers
  <2>3. e \in FirstFiles
    BY <2>2 DEF FirstFiles
  <2> QED
    BY <2>2, <2>3
<1> HIDE DEF size, end
<1>8. ASSUME NEW u \in 0 .. BufUnits - 1
      PROVE  (\A v \in 0 .. u : Piece(v) # "zero") <=> u < size
  <2>1. ASSUME u < size, NEW v \in 0 .. u PROVE Piece(v) # "zero"
    BY <1>3, <1>6, <2>1
  <2>2. ASSUME ~(u < size) PROVE size \in 0 .. u
    BY <1>3, <1>4, <2>2
  <2> QED
    BY <1>6, <2>1, <2>2
<1>9. \A u \in Int : u \in 0 .. size - 1 <=> u \in 0 .. BufUnits - 1 /\ u < size
  BY <1>1, <1>3, <1>4
<1>10. Printed = 0 .. size - 1
  BY <1>8, <1>9 DEF Printed
<1> QED
  BY <1>7, <1>10 DEF size

\* `run`'s two properties.
LEMMA RunsFromIIInv == IIInv => RunsTheProgram /\ NoElfRunsFlat
<1> SUFFICES ASSUME IIInv, Done, outcome = "flat"
             PROVE  RunsTheProgram /\ NoElfRunsFlat
  BY DEF RunsTheProgram, NoElfRunsFlat
<1>1. command = "run" /\ call = 4 /\ Len(answers) = 3 /\ ValuesTyped /\ RunHolds
  BY DEF IIInv, EndHolds
<1>2. /\ 1 \in DOMAIN answers /\ 2 \in DOMAIN answers /\ 3 \in DOMAIN answers
      /\ Found = answers[3] /\ LookupOf(1) = 1 /\ LookupOf(2) = 2
  BY <1>1, AnswersFacts DEF Found, Last, LookupOf
<1>3. /\ answers[1] # Missing
      /\ 2 \notin failed /\ answers[2].size > 0 =>
             /\ target["run"] = [file |-> answers[2].lba, whole |-> "yes"]
             /\ answers[2].lba \notin Signed \cap LittleEndian \cap ForX86
  BY <1>1 DEF RunHolds
<1>4. ASSUME 2 \notin failed, Reached, FirstFiles = {}, 1 \notin failed, ~Doubtful PROVE FALSE
  <2>1. PICK d \in FirstDirectories(path, Parents) : TRUE
    BY <1>4 DEF Reached
  <2>2. answers[1] # Stray
    BY <1>2, <1>4, <2>1, WayAnswers
  <2>3. PICK e : e \in FilesIn(FirstEntries(d))
    BY <1>2, <1>3, <1>4, <2>2, WayAnswers
  <2>4. e \in FirstFiles
    BY <2>3 DEF FirstFiles
  <2> QED
    BY <1>4, <2>4
<1>5. ASSUME 2 \notin failed, Reached, FirstFiles # {}
      PROVE  \E e \in FirstFiles :
                 /\ IsAnswer(answers[2], e)
                 /\ e.size > 0 => target["run"] = [file |-> e.lba, whole |-> "yes"]
  <2>1. PICK d \in FirstDirectories(path, Parents) : FilesIn(FirstEntries(d)) # {}
    BY <1>5 DEF FirstFiles
  <2>2. answers[2] \notin {Missing, Stray}
    BY <1>2, <1>5, <2>1, WayAnswers
  <2>3. PICK e \in FilesIn(FirstEntries(d)) : IsAnswer(answers[2], e)
    BY <1>2, <1>5, <2>2, WayAnswers
  <2>4. e \in FirstFiles
    BY <2>3 DEF FirstFiles
  <2>5. answers[2].lba = e.lba /\ answers[2].size = e.size
    BY <2>3 DEF IsAnswer
  <2> QED
    BY <1>3, <1>5, <2>3, <2>4, <2>5
<1>6. ASSUME failed = {}, ~Doubtful PROVE answers[2] = Found
  BY <1>2, <1>6, SameAnswers
<1>7. RunsTheProgram
  BY <1>4, <1>5 DEF RunsTheProgram
<1>8. NoElfRunsFlat
  BY <1>3, <1>6 DEF NoElfRunsFlat
<1> QED
  BY <1>7, <1>8

(***************************************************************************)
(* The theorems.                                                           *)
(***************************************************************************)

\* What a lookup answers.  If no read fails and the path's directories are there,
\* each in the first sector of its parent, findfile finds the path's file if the
\* last directory's first sector has it; the two lookups agree if the walk is not
\* doubtful; and whatever fails, a file that is found has its name from the path,
\* and is out of a directory that some of the path's parts lead to, from the root
\* or, only if that lookup's own read failed, from where a lookup before ended.
THEOREM LookupsAnswer == Spec => []LookupsHold
<1>1. IIInv => LookupsHold
  BY FindsFromIIInv DEF IIInv, PassedHolds, LookupsHold
<1> QED
  BY <1>1, LookupsFollowThePath, PTL

\* If no read fails: list shows the first sector of the directory asked for, and
\* none only if a part is not in the first sector before it; readfile shows the
\* path's file to its last byte and no further, if the path's directories are there
\* and the file fits and does not end with a sector.
THEOREM ShownAsItIs == Spec => []ShowsWhatIsThere
<1>1. IIInv => ShowsWhatIsThere
  BY PrintsFromIIInv DEF IIInv, ListHolds, ShowsWhatIsThere
<1> QED
  BY <1>1, LookupsFollowThePath, PTL

\* If the path's directories are there, what runs flat is the path's file if the
\* second lookup and read go well, whatever failed before; and no file that passes
\* confirm_elf runs flat unless a read failed or the walk is doubtful.
THEOREM RunAsAsked == Spec => []RunsWhatWasAsked
<1>1. IIInv => RunsWhatWasAsked
  BY RunsFromIIInv DEF RunsWhatWasAsked
<1> QED
  BY <1>1, LookupsFollowThePath, PTL

\* Memory that is no directory is walked only without a descriptor, after a failed
\* read, for a path without parts or with a full sector on the way; a command does
\* not come back, too, for a file larger than readfile's buffer.
THEOREM WildForAReason == Spec => []WildOnlyFor
<1>1. IIInv => WildOnlyFor
  BY DEF IIInv, StrayHolds
<1> QED
  BY <1>1, LookupsFollowThePath, PTL
==============================================================================
