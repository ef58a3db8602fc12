---------------------------- MODULE ShellProofs -----------------------------
(* Proofs about Shell and Loader, for every page size, any buffers and      *)
(* images, and every input.                                                 *)
EXTENDS Shell, TLAPS, FiniteSetTheorems, NaturalsInduction, WellFoundedInduction, SequenceTheorems

(* A nonempty set of natural numbers has a smallest element.                *)
LEMMA Smallest == ASSUME NEW S \in SUBSET Nat, S # {}
                  PROVE \E x \in S : \A y \in S : x <= y
<1> DEFINE R == OpToRel(<, Nat)
<1>1. IsWellFoundedOn(R, Nat)
  BY NatLessThanWellFounded
<1>2. \A m, n \in Nat : m < n => <<m, n>> \in R
  BY DEF OpToRel
<1> HIDE DEF R
<1>3. PICK n \in S : \A m \in S : ~(<<m, n>> \in R)
  BY <1>1, WFMin
<1>4. ASSUME NEW m \in S PROVE n <= m
  <2>1. n \in Nat /\ m \in Nat
    OBVIOUS
  <2>2. ~(m < n)
    BY <1>2, <1>3, <2>1
  <2> QED BY <2>1, <2>2
<1> QED BY <1>4
----------------------------------------------------------------------------
(* Pages. *)

(* Rounding up a multiple of the page size leaves it alone.                 *)
LEMMA MultipleKept == ASSUME NEW p \in Nat \ {0}, NEW a \in Nat
                      PROVE ((a * p + p - 1) \div p) * p = a * p
<1> DEFINE q == (a * p + p - 1) \div p
<1>1. a * p \in Nat /\ a * p + p - 1 \in Nat
  OBVIOUS
<1>2. q \in Nat /\ q * p <= a * p + p - 1 /\ a * p + p - 1 < (q + 1) * p
  OBVIOUS
<1> HIDE DEF q
<1>3. ASSUME q < a PROVE FALSE
  <2>1. (q + 1) * p <= a * p
    BY <1>2, <1>3
  <2> QED BY <2>1, <1>2, <1>1
<1>4. ASSUME a < q PROVE FALSE
  <2>1. (a + 1) * p <= q * p /\ (a + 1) * p = a * p + p
    BY <1>2, <1>4
  <2> QED BY <2>1, <1>2, <1>1
<1>5. q = a
  BY <1>2, <1>3, <1>4
<1> QED BY <1>5 DEF q

(* The first f of m bytes from v on lie in the l bytes from p on.           *)
LEMMA Within ==
  ASSUME NEW v \in Nat, NEW m \in Nat, NEW f \in Nat, NEW p \in Nat, NEW l \in Nat,
         f <= m, p <= v, v + m <= p + l, NEW i \in 0..(f - 1)
  PROVE  v + i \in p..(p + l - 1)
OBVIOUS

(* A segment begins at or after the page its mapping begins with, and       *)
(* exec_file asks mmap for a page boundary, so that the kernel need not     *)
(* round.                                                                   *)
LEMMA Pagewise ==
  ASSUME NEW sg \in Segments
  PROVE  /\ Place(sg) \in Nat /\ Length(sg) \in Nat /\ Place(sg) <= sg.vaddr
         /\ KernelRange(sg) = Mapping(sg)
<1>1. PageSize \in Nat \ {0} /\ sg.vaddr \in Nat /\ sg.memsz \in Nat
  BY ShellAssumption DEF Segments
<1>2. Place(sg) \in Nat /\ Place(sg) <= sg.vaddr
  BY <1>1 DEF Place, ROUND_DOWN
<1>3. Length(sg) \in Nat
  BY <1>1 DEF Length, ROUND_UP
<1>4. KernelPlace(sg) = Place(sg)
  <2>1. sg.vaddr \div PageSize \in Nat
    BY <1>1
  <2> QED BY <1>1, <2>1, MultipleKept DEF KernelPlace, ROUND_UP, Place, ROUND_DOWN
<1> QED BY <1>2, <1>3, <1>4 DEF KernelRange, Mapping
----------------------------------------------------------------------------
(* Loading and unloading an image. *)

(* What memory holds when the first n segments of an image are mapped and   *)
(* read, and nothing else is.                                               *)
Contents(m, file, image, n) ==
  /\ m = [a \in Addresses |-> m[a]]
  /\ \A a \in Addresses : (\A j \in 1..n : a \notin Mapping(image[j])) => m[a] = Unmapped
  /\ \A j \in 1..n : \A a \in Mapping(image[j]) :
       m[a] = IF a - image[j].vaddr \in 0..(image[j].filesz - 1)
                THEN FileByte(file, j, a - image[j].vaddr) ELSE ZeroByte

(* Mapping and reading the next segment of a loadable image finds the pages *)
(* free and leaves the earlier segments alone.                              *)
LEMMA NextSegment ==
  ASSUME NEW m, NEW file, NEW image \in Seq(Segments), Loadable(image),
         NEW n \in 0..(Len(image) - 1), Contents(m, file, image, n)
  PROVE  /\ HintFree(m, image[n + 1])
         /\ Contents(Read(Mmap(m, image[n + 1]), file, n + 1, image[n + 1]), file, image, n + 1)
<1> DEFINE sg == image[n + 1]
           m1 == Mmap(m, sg)
           m2 == Read(m1, file, n + 1, sg)
<1>1. sg \in Segments /\ n + 1 \in 1..Len(image) /\ \A j \in 1..n : j \in 1..Len(image) /\ j # n + 1
  OBVIOUS
<1>2. /\ sg.vaddr \in Nat /\ sg.memsz \in Nat /\ sg.filesz \in Nat /\ sg.filesz <= sg.memsz
      /\ Mapping(sg) \subseteq Addresses
  BY <1>1 DEF Segments
<1>3. Place(sg) \in Nat /\ Length(sg) \in Nat /\ Place(sg) <= sg.vaddr /\ KernelRange(sg) = Mapping(sg)
  BY <1>1, Pagewise
<1>4. \A j \in 1..n : Mapping(image[j]) \cap Mapping(sg) = {}
  BY <1>1 DEF Loadable, Disjoint
<1>5. Fits(sg)
  BY <1>1 DEF Loadable
<1> HIDE DEF sg
<1>f. \A i \in 0..(sg.filesz - 1) : sg.vaddr + i \in Mapping(sg)
  <2>1. sg.vaddr + sg.memsz <= Place(sg) + Length(sg)
    BY <1>5 DEF Fits
  <2>2. sg.vaddr \in Nat /\ sg.memsz \in Nat /\ sg.filesz \in Nat /\ sg.filesz <= sg.memsz
    BY <1>2
  <2> SUFFICES ASSUME NEW i \in 0..(sg.filesz - 1) PROVE sg.vaddr + i \in Mapping(sg)
    OBVIOUS
  <2> QED BY <2>1, <2>2, <1>3, Within DEF Mapping
<1>6. HintFree(m, sg)
  BY <1>2, <1>3, <1>4 DEF HintFree, Contents
<1>7. m1 = [a \in Addresses |-> IF a \in Mapping(sg) THEN ZeroByte ELSE m[a]]
  BY <1>3, <1>6 DEF Mmap
<1> HIDE DEF m1
<1>8. ASSUME NEW k \in 0..(sg.filesz - 1) PROVE Readable(m1, sg, k)
  <2>1. \A i \in 0..k : i \in 0..(sg.filesz - 1)
    BY <1>2
  <2>2. \A i \in 0..k : m1[sg.vaddr + i] = ZeroByte
    BY <1>2, <1>f, <1>7, <2>1
  <2>3. ZeroByte # Unmapped
    BY DEF ZeroByte, Unmapped
  <2> QED BY <2>2, <2>3 DEF Readable
<1>9. m2 = [a \in Addresses |-> IF a - sg.vaddr \in 0..(sg.filesz - 1)
                                  THEN FileByte(file, n + 1, a - sg.vaddr) ELSE m1[a]]
  BY <1>8, Zenon DEF Read
<1> HIDE DEF m2
<1>g. Addresses \subseteq Int
  BY DEF Addresses
<1>10. ASSUME NEW a \in Addresses, a \notin Mapping(sg) PROVE m2[a] = m[a]
  <2>1. a - sg.vaddr \notin 0..(sg.filesz - 1)
    BY <1>f, <1>10, <1>2, <1>g
  <2> QED BY <2>1, <1>7, <1>9, <1>10
<1>11. ASSUME NEW a \in Mapping(sg)
       PROVE  m2[a] = IF a - sg.vaddr \in 0..(sg.filesz - 1)
                        THEN FileByte(file, n + 1, a - sg.vaddr) ELSE ZeroByte
  BY <1>7, <1>9, <1>2
<1>12. \A j \in 1..n : Mapping(image[j]) \subseteq Addresses
  <2>1. \A j \in 1..Len(image) : image[j] \in Segments
    OBVIOUS
  <2>2. \A s \in Segments : Mapping(s) \subseteq Addresses
    BY DEF Segments
  <2> QED BY <1>1, <2>1, <2>2
<1>13. \A j \in 1..(n + 1) : j \in 1..n \/ j = n + 1
  OBVIOUS
<1>14. Contents(m2, file, image, n + 1)
  <2>1. m2 = [a \in Addresses |-> m2[a]]
    BY <1>9
  <2>2. \A a \in Addresses : (\A j \in 1..(n + 1) : a \notin Mapping(image[j])) => m2[a] = Unmapped
    <3>1. n + 1 \in 1..(n + 1) /\ \A j \in 1..n : j \in 1..(n + 1)
      OBVIOUS
    <3> QED BY <1>10, <3>1, Zenon DEF Contents, sg
  <2>3. ASSUME NEW j \in 1..(n + 1), NEW a \in Mapping(image[j])
        PROVE  m2[a] = IF a - image[j].vaddr \in 0..(image[j].filesz - 1)
                         THEN FileByte(file, j, a - image[j].vaddr) ELSE ZeroByte
    <3>1. CASE j \in 1..n
      <4>1. a \in Addresses /\ a \notin Mapping(sg)
        BY <3>1, <1>4, <1>12
      <4>2. m2[a] = m[a]
        BY <4>1, <1>10
      <4> QED BY <3>1, <4>2, Zenon DEF Contents
    <3>2. CASE j = n + 1
      BY <3>2, <1>11, Zenon DEF sg
    <3> QED BY <3>1, <3>2, <1>13
  <2> QED BY <2>1, <2>2, <2>3, Zenon DEF Contents
<1> QED BY <1>6, <1>14 DEF sg, m1, m2

(* With all its segments read, an image is in memory, and nothing else is.  *)
LEMMA AllInPlace ==
  ASSUME NEW m, NEW file, NEW image \in Seq(Segments), Loadable(image),
         Contents(m, file, image, Len(image))
  PROVE  InPlace(m, file, image) /\ MemoryIs(m, file, image)
<1>m. MemoryIs(m, file, image)
  BY Zenon DEF MemoryIs, Contents, Wanted
<1> SUFFICES ASSUME NEW j \in 1..Len(image),
                    NEW a \in image[j].vaddr..(image[j].vaddr + image[j].memsz - 1)
             PROVE  m[a] = Wanted(file, j, image[j], a)
  BY <1>m DEF InPlace
<1> DEFINE sg == image[j]
<1>1. sg \in Segments
  OBVIOUS
<1>2. sg.vaddr \in Nat /\ sg.memsz \in Nat /\ sg.filesz \in Nat
  BY <1>1 DEF Segments
<1>3. Fits(sg)
  BY DEF Loadable
<1>4. a \in Mapping(sg)
  <2>1. Place(sg) \in Nat /\ Length(sg) \in Nat /\ Place(sg) <= sg.vaddr
    BY <1>1, Pagewise
  <2>2. sg.vaddr + sg.memsz <= Place(sg) + Length(sg)
    BY <1>3 DEF Fits
  <2> QED BY <1>2, <2>1, <2>2 DEF Mapping
<1> QED BY <1>4, <1>m, Zenon DEF MemoryIs

\* Nothing is mapped outside the image's segments.
OnlyMapped(m, image) ==
  /\ m = [a \in Addresses |-> m[a]]
  /\ \A a \in Addresses : (\A j \in 1..Len(image) : a \notin Mapping(image[j])) => m[a] = Unmapped

(* What exec_file unmaps is all that was mapped.                            *)
LEMMA AllUnmapped == ASSUME NEW m, NEW image, OnlyMapped(m, image) PROVE Munmap(m, image) = NoMemory
<1>1. \A a \in Addresses : (IF \E j \in All(image) : a \in Mapping(image[j]) THEN Unmapped ELSE m[a]) = Unmapped
  BY DEF OnlyMapped, All
<1> QED BY <1>1 DEF Munmap, NoMemory
----------------------------------------------------------------------------
(* The shell. *)

Reading == pc \in {"read", "skip", "line"}
\* A program runs, or reads a line.
InProgram == pc \in {"program", "return"} \/ (Reading /\ caller = "program")

Places == {"prompt", "read", "skip", "line", "open", "map", "program", "return", "exit_0", "exit_1", "crash"}
Types ==
  /\ session \in Sessions
  /\ pos \in 0..Len(stdin) /\ start \in 0..pos
  /\ pc \in Places /\ caller \in {"main", "program"}
  /\ buf \in Seq(Characters)
  /\ seg \in Nat \ {0} /\ elsewhere \in BOOLEAN
  /\ failed \in {"no", "reading", "skipping"}
  /\ pc = "map" \/ InProgram => Exists

(* Before exec_file and after it no page of a program is mapped; between    *)
(* the two, what its segments so far hold, and outside them nothing.        *)
MemoryKept ==
  Sound =>
    /\ ~elsewhere
    /\ pc \in {"prompt", "open"} \/ (Reading /\ caller = "main") => mem = NoMemory
    /\ pc = "open" => seg = 1
    /\ pc = "map" => /\ seg <= Len(Program.image) + 1
                     /\ Contents(mem, File, Program.image, seg - 1)
    /\ InProgram => OnlyMapped(mem, Program.image)

\* What was read since do_readline was called is one line or part of one.
NoNewline(q) == \A i \in (start + 1)..q : stdin[i] # NL
Copied == \A i \in 1..Len(buf) : buf[i] = stdin[start + i]

(* do_readline while it reads and while it skips the rest of the line.      *)
LineKept ==
  /\ pc \in {"read", "skip"} =>
       /\ Len(buf) <= Capacity /\ start + Len(buf) <= pos
       /\ NoNewline(pos) /\ Copied
  /\ pc = "read" => failed = "no" /\ pos = start + Len(buf)
  /\ pc = "skip" => /\ failed # "skipping"
                    /\ failed = "no" => Len(buf) = Capacity \/ (AtEnd /\ pos = start + Len(buf))
----------------------------------------------------------------------------
(* What holds of the constants. *)
LEMMA ConstantFacts ==
  /\ NUL \notin Characters /\ PageSize \in Nat \ {0} /\ BufferSize \in Nat \ {0} /\ GrepSize \in Nat \ {0} /\ MaxArgs \in Nat \ {0}
  /\ \A s \in Sessions : s.input \in Seq(Characters) /\ s.faults \in BOOLEAN
  /\ \A s \in Sessions : \A f \in DOMAIN s.files : s.files[f].image \in Seq(Segments)
BY ShellAssumption

LEMMA CapacityNat == Capacity \in Nat
BY ConstantFacts DEF Capacity

(* The segments of a file that exists. *)
LEMMA ImageTyped ==
  ASSUME Types, Exists
  PROVE  Program.image \in Seq(Segments) /\ (Sound => Loadable(Program.image))
BY ConstantFacts, Zenon DEF Types, Exists, Program, Sound

(* Standard input is a sequence of characters. *)
LEMMA StdinTyped == ASSUME session \in Sessions PROVE stdin \in Seq(Characters) /\ Len(stdin) \in Nat
<1>1. stdin \in Seq(Characters)
  BY ConstantFacts, Zenon DEF stdin
<1> QED BY <1>1

(* The type invariant holds initially. *)
LEMMA TypesInit == Init => Types
<1> SUFFICES ASSUME Init PROVE Types
  OBVIOUS
<1>1. /\ session \in Sessions /\ pos = 0 /\ pc = "prompt" /\ caller = "main" /\ buf = <<>>
      /\ seg = 1 /\ elsewhere = FALSE /\ start = 0 /\ failed = "no"
  BY DEF Init
<1>2. Len(stdin) \in Nat
  BY <1>1, StdinTyped
<1>3. buf \in Seq(Characters)
  <2>1. <<>> \in Seq(Characters)
    OBVIOUS
  <2> QED BY <1>1, <2>1
<1>5. /\ session \in Sessions /\ pc = "prompt" /\ caller = "main"
      /\ seg = 1 /\ failed = "no"
  BY <1>1
<1>6. elsewhere \in BOOLEAN
  BY <1>1, Zenon
<1>7. ~(pc = "map" \/ InProgram)
  BY <1>5 DEF InProgram, Reading
<1>4. pos \in 0..Len(stdin) /\ start \in 0..pos
  BY <1>1, <1>2
<1> QED BY <1>5, <1>3, <1>4, <1>6, <1>7 DEF Types, Places

(* Reading does not touch the words and the session. *)
LEMMA SameProgram ==
  ASSUME session' = session, argv' = argv, line' = line
  PROVE  Exists' = Exists /\ File' = File /\ Program' = Program /\ Sound' = Sound /\ stdin' = stdin
BY DEF Exists, File, Program, Sound, do_getarg, Argc, stdin

(* Every step keeps the type invariant. *)
LEMMA TypesNext == ASSUME Types, [Next]_vars PROVE Types'
<1> USE DEF Places
<1>0. Len(stdin) \in Nat /\ stdin \in Seq(Characters)
  BY StdinTyped DEF Types
<1>1. CASE ReadChar
  <2>1. /\ pc = "read" /\ pos' = pos + 1 /\ pos # Len(stdin) /\ session' = session /\ caller' = caller
        /\ start' = start /\ failed' = failed /\ argv' = argv /\ line' = line /\ seg' = seg
        /\ elsewhere' = elsewhere
        /\ \/ pc' = "line" /\ buf' = buf
           \/ pc' = "read" /\ buf' = Append(buf, stdin[pos + 1])
    BY <1>1 DEF ReadChar, AtEnd, words, memory
  <2>2. pos' \in 0..Len(stdin) /\ start' \in 0..pos' /\ stdin[pos + 1] \in Characters
    BY <1>0, <2>1 DEF Types
  <2>3. buf' \in Seq(Characters)
    BY <2>1, <2>2 DEF Types
  <2>4. (pc' = "map" \/ InProgram') => (pc = "map" \/ InProgram)
    BY <2>1 DEF InProgram, Reading
  <2> QED BY <2>1, <2>2, <2>3, <2>4, SameProgram DEF Types
<1>2. CASE ReadEnds
  <2>1. /\ pc = "read" /\ pc' \in {"skip", "line"} /\ pos' = pos /\ session' = session /\ caller' = caller
        /\ start' = start /\ failed' \in {failed, "reading"} /\ argv' = argv /\ line' = line /\ seg' = seg
        /\ elsewhere' = elsewhere /\ buf' = buf
    BY <1>2 DEF ReadEnds, words, memory
  <2>2. (pc' = "map" \/ InProgram') => (pc = "map" \/ InProgram)
    BY <2>1 DEF InProgram, Reading
  <2> QED BY <2>1, <2>2, SameProgram DEF Types
<1>3. CASE BufferFull
  <2>1. /\ pc = "read" /\ pc' = "skip" /\ pos' = pos /\ session' = session /\ caller' = caller
        /\ start' = start /\ failed' = failed /\ argv' = argv /\ line' = line /\ seg' = seg
        /\ elsewhere' = elsewhere /\ buf' = buf
    BY <1>3 DEF BufferFull, SkipRest, reader, words, memory
  <2>2. (pc' = "map" \/ InProgram') => (pc = "map" \/ InProgram)
    BY <2>1 DEF InProgram, Reading
  <2> QED BY <2>1, <2>2, SameProgram DEF Types
<1>4. CASE SkipChar
  <2>1. /\ pc = "skip" /\ pc' \in {"line", "skip"} /\ pos # Len(stdin) /\ pos' = pos + 1
        /\ session' = session /\ caller' = caller
        /\ start' = start /\ failed' = failed /\ argv' = argv /\ line' = line /\ seg' = seg
        /\ elsewhere' = elsewhere /\ buf' = buf
    BY <1>4 DEF SkipChar, AtEnd, words, memory
  <2>2. pos' \in 0..Len(stdin) /\ start' \in 0..pos'
    BY <1>0, <2>1 DEF Types
  <2>3. (pc' = "map" \/ InProgram') => (pc = "map" \/ InProgram)
    BY <2>1 DEF InProgram, Reading
  <2> QED BY <2>1, <2>2, <2>3, SameProgram DEF Types
<1>5. CASE SkipEnds
  <2>1. /\ pc = "skip" /\ pc' = "line" /\ pos' = pos /\ session' = session /\ caller' = caller
        /\ start' = start /\ failed' \in {failed, "skipping"} /\ argv' = argv /\ line' = line /\ seg' = seg
        /\ elsewhere' = elsewhere /\ buf' = buf
    BY <1>5 DEF SkipEnds, words, memory
  <2>2. (pc' = "map" \/ InProgram') => (pc = "map" \/ InProgram)
    BY <2>1 DEF InProgram, Reading
  <2> QED BY <2>1, <2>2, SameProgram DEF Types
<1>6. ASSUME NEW who \in {"main", "program"}, CallReadline(who), session' = session, argv' = argv, line' = line,
             seg' = seg, elsewhere' = elsewhere, who = "program" => Exists
      PROVE  Types'
  <2>1. /\ pc' = "read" /\ caller' = who /\ buf' = <<>> /\ start' = pos /\ failed' = "no" /\ pos' = pos
    BY <1>6 DEF CallReadline
  <2>2. buf' \in Seq(Characters)
    BY <2>1
  <2>3. (pc' = "map" \/ InProgram') => Exists
    BY <1>6, <2>1 DEF InProgram, Reading
  <2>4. start' \in 0..pos'
    <3>1. pos \in Nat
      BY <1>0 DEF Types
    <3> QED BY <2>1, <3>1
  <2> QED BY <1>6, <2>1, <2>2, <2>3, <2>4, SameProgram DEF Types
<1>7. CASE Prompt
  BY <1>7, <1>6 DEF Prompt, words, memory
<1>8. CASE ProgramReads
  <2>1. Exists
    BY <1>8 DEF Types, InProgram, ProgramReads
  <2> QED BY <1>8, <2>1, <1>6 DEF ProgramReads, words, memory
<1>9. CASE EchoOrIgnore \/ QuitLine \/ MmapFails \/ ProgramLine
  <2>1. /\ pc' \in {"prompt", "exit_0", "exit_1"}
           \/ (pc' \in {"return", "program"} /\ pc = "line" /\ caller = "program")
        /\ pos' = pos /\ session' = session /\ caller' = caller
        /\ start' = start /\ failed' = failed /\ argv' = argv /\ line' = line /\ seg' = seg
        /\ elsewhere' = elsewhere /\ buf' = buf
    BY <1>9 DEF EchoOrIgnore, QuitLine, MmapFails, ProgramLine, reader, words, memory
  <2>2. (pc' = "map" \/ InProgram') => InProgram
    BY <2>1 DEF InProgram, Reading
  <2> QED BY <2>1, <2>2, SameProgram DEF Types
<1>10. CASE Command
  <2>1. /\ pc' = "open" /\ pos' = pos /\ session' = session /\ caller' = caller
        /\ start' = start /\ failed' = failed /\ seg' = 1 /\ elsewhere' = elsewhere /\ buf' = buf
    BY <1>10 DEF Command, reader
  <2>2. ~(pc' = "map" \/ InProgram')
    BY <2>1 DEF InProgram, Reading
  <2>3. stdin' = stdin
    BY <2>1 DEF stdin
  <2> QED BY <2>1, <2>2, <2>3 DEF Types
<1>11. CASE Open
  <2>1. /\ pc' = "exit_1" \/ (Exists /\ pc' = "map")
        /\ pos' = pos /\ session' = session /\ caller' = caller
        /\ start' = start /\ failed' = failed /\ argv' = argv /\ line' = line /\ seg' = seg
        /\ elsewhere' = elsewhere /\ buf' = buf
    BY <1>11 DEF Open, reader, words, memory
  <2>2. (pc' = "map" \/ InProgram') => Exists
    BY <2>1 DEF InProgram, Reading
  <2> QED BY <2>1, <2>2, SameProgram DEF Types
<1>12. CASE MapSegment
  <2>1. /\ pc' = "map" /\ pc = "map" /\ pos' = pos /\ session' = session /\ caller' = caller
        /\ start' = start /\ failed' = failed /\ argv' = argv /\ line' = line /\ seg' = seg + 1
        /\ elsewhere' \in BOOLEAN /\ buf' = buf
    BY <1>12 DEF MapSegment, reader, words
  <2> QED BY <2>1, SameProgram DEF Types
<1>13. CASE Run \/ Unload
  <2>1. /\ \/ pc = "map" /\ pc' \in {"program", "return", "crash"}
           \/ pc = "return" /\ pc' = "prompt"
        /\ pos' = pos /\ session' = session /\ caller' = caller
        /\ start' = start /\ failed' = failed /\ argv' = argv /\ line' = line /\ seg' = seg
        /\ elsewhere' = elsewhere /\ buf' = buf
    BY <1>13 DEF Run, Loaded, Unload, reader, words
  <2>2. (pc' = "map" \/ InProgram') => (pc = "map" \/ InProgram)
    BY <2>1 DEF InProgram, Reading
  <2> QED BY <2>1, <2>2, SameProgram DEF Types
<1>14. CASE UNCHANGED vars
  <2>1. (pc' = "map" \/ InProgram') => (pc = "map" \/ InProgram)
    BY <1>14 DEF InProgram, Reading, vars
  <2> QED BY <1>14, <2>1, SameProgram DEF Types, vars
<1> QED BY <1>1, <1>2, <1>3, <1>4, <1>5, <1>7, <1>8, <1>9, <1>10, <1>11, <1>12, <1>13, <1>14
        DEF Next, Readline, MainLoop, ExecFile
----------------------------------------------------------------------------
(* Memory. *)

(* An empty memory is one in which the first no segments are loaded. *)
LEMMA NothingLoaded ==
  ASSUME NEW file, NEW image
  PROVE  Contents(NoMemory, file, image, 0)
<1>1. 1..0 = {}
  OBVIOUS
<1> QED BY <1>1, Zenon DEF Contents, NoMemory

(* A step that leaves memory, the words and the place in the image alone.   *)
LEMMA SameMemory ==
  ASSUME MemoryKept, UNCHANGED <<session, argv, line, seg, mem, elsewhere>>,
         pc' = "prompt" \/ (Reading' /\ caller' = "main") =>
           pc = "prompt" \/ (Reading /\ caller = "main"),
         pc' # "open" \/ pc = "open", pc' = "map" => pc = "map", InProgram' => InProgram
  PROVE  MemoryKept'
<1>1. Exists' = Exists /\ File' = File /\ Program' = Program /\ Sound' = Sound
  BY SameProgram
<1> QED BY <1>1, Zenon DEF MemoryKept, Contents, OnlyMapped

(* At the start nothing is mapped. *)
LEMMA MemoryInit == Init => MemoryKept
<1> SUFFICES ASSUME Init PROVE MemoryKept
  OBVIOUS
<1>1. pc = "prompt" /\ mem = NoMemory /\ elsewhere = FALSE
  BY DEF Init
<1>2. ~elsewhere
  BY <1>1, Zenon
<1>3. pc # "open" /\ pc # "map" /\ ~InProgram
  BY <1>1 DEF InProgram, Reading
<1> QED BY <1>1, <1>2, <1>3, Zenon DEF MemoryKept

(* Every step keeps what MemoryKept says. *)
LEMMA MemoryNext == ASSUME Types, MemoryKept, [Next]_vars PROVE MemoryKept'
<1>1. CASE Readline
  <2>1. /\ UNCHANGED <<session, argv, line, seg, mem, elsewhere>> /\ caller' = caller
        /\ Reading /\ Reading'
    BY <1>1 DEF Readline, ReadChar, ReadEnds, BufferFull, SkipChar, SkipEnds, SkipRest, reader, words,
           memory,
                Reading
  <2>2. pc' # "open" /\ pc' # "map" /\ pc' # "prompt" /\ (InProgram' => InProgram)
    BY <2>1 DEF Reading, InProgram
  <2> QED BY <2>1, <2>2, SameMemory, Zenon
<1>2. CASE Prompt \/ EchoOrIgnore \/ QuitLine \/ MmapFails \/ ProgramReads \/ ProgramLine
  <2>1. /\ UNCHANGED <<session, argv, line, seg, mem, elsewhere>>
        /\ \/ pc = "prompt" /\ pc' = "read" /\ caller' = "main"
           \/ pc = "line" /\ caller = "main" /\ pc' \in {"prompt", "exit_0"}
           \/ pc' = "exit_1"
           \/ pc = "program" /\ pc' = "read" /\ caller' = "program"
           \/ pc = "line" /\ caller = "program" /\ pc' \in {"program", "return"}
    BY <1>2 DEF Prompt, EchoOrIgnore, QuitLine, MmapFails, ProgramReads, ProgramLine, CallReadline,
           MainLine,
                reader, words, memory
  <2>2. /\ pc' = "prompt" \/ (Reading' /\ caller' = "main") => pc = "prompt" \/ (Reading /\ caller = "main")
        /\ pc' # "open" /\ pc' # "map" /\ (InProgram' => InProgram)
    BY <2>1 DEF Reading, InProgram
  <2> QED BY <2>1, <2>2, SameMemory, Zenon
<1>3. CASE Command
  <2>1. /\ session' = session /\ mem' = mem /\ elsewhere' = elsewhere /\ seg' = 1
        /\ pc = "line" /\ caller = "main" /\ pc' = "open"
    BY <1>3 DEF Command, MainLine, reader
  <2>2. Sound' = Sound
    BY <2>1 DEF Sound
  <2>3. pc' # "map" /\ ~InProgram' /\ Reading /\ caller = "main"
    BY <2>1 DEF InProgram, Reading
  <2> QED BY <2>1, <2>2, <2>3, Zenon DEF MemoryKept
<1>4. CASE Open
  <2>1. /\ UNCHANGED <<session, argv, line, seg, mem, elsewhere>> /\ pc = "open"
        /\ pc' = "exit_1" \/ (Exists /\ pc' = "map")
    BY <1>4 DEF Open, reader, words, memory
  <2>2. Exists' = Exists /\ File' = File /\ Program' = Program /\ Sound' = Sound
    BY <2>1, SameProgram
  <2>3. pc' # "open" /\ pc' # "prompt" /\ ~Reading' /\ ~InProgram'
    BY <2>1 DEF Reading, InProgram
  <2>4. ASSUME Sound, pc' = "map"
        PROVE  seg <= Len(Program.image) + 1 /\ Contents(mem, File, Program.image, seg - 1)
    <3>1. seg = 1 /\ mem = NoMemory
      BY <2>1, <2>4 DEF MemoryKept
    <3>2. Exists
      BY <2>1, <2>4
    <3>3. Len(Program.image) \in Nat
      BY <3>2, ImageTyped
    <3>4. seg - 1 = 0 /\ seg <= Len(Program.image) + 1
      BY <3>1, <3>3
    <3> QED BY <3>1, <3>4, NothingLoaded, Zenon
  <2>5. Contents(mem, File, Program.image, seg - 1) => Contents(mem', File', Program'.image, seg' - 1)
    BY <2>1, <2>2, Zenon
  <2> QED BY <2>1, <2>2, <2>3, <2>4, <2>5, Zenon DEF MemoryKept, Contents
<1>5. CASE MapSegment
  <2> DEFINE sg == Program.image[seg]
  <2>1. /\ UNCHANGED <<session, argv, line>> /\ pc = "map" /\ pc' = "map" /\ seg' = seg + 1
        /\ seg <= Len(Program.image)
        /\ mem' = Read(Mmap(mem, sg), File, seg, sg) /\ elsewhere' = (elsewhere \/ ~HintFree(mem, sg))
    BY <1>5 DEF MapSegment, reader, words
  <2>2. Exists' = Exists /\ File' = File /\ Program' = Program /\ Sound' = Sound
    BY <2>1, SameProgram
  <2>3. Exists /\ seg \in Nat \ {0}
    BY <2>1 DEF Types
  <2>4. ASSUME Sound
        PROVE  /\ ~elsewhere' /\ seg' <= Len(Program.image) + 1
               /\ Contents(mem', File, Program.image, seg' - 1)
    <3>1. Program.image \in Seq(Segments) /\ Loadable(Program.image)
      BY <2>3, <2>4, ImageTyped
    <3>2. seg - 1 \in 0..(Len(Program.image) - 1) /\ (seg - 1) + 1 = seg /\ seg' - 1 = seg
          /\ seg' <= Len(Program.image) + 1
      BY <2>1, <2>3, <3>1
    <3>3. Contents(mem, File, Program.image, seg - 1) /\ ~elsewhere
      BY <2>1, <2>4, Zenon DEF MemoryKept
    <3>4. /\ HintFree(mem, Program.image[(seg - 1) + 1])
          /\ Contents(Read(Mmap(mem, Program.image[(seg - 1) + 1]), File, (seg - 1) + 1,
                           Program.image[(seg - 1) + 1]), File, Program.image, (seg - 1) + 1)
      BY <3>1, <3>2, <3>3, NextSegment, Zenon
    <3>5. HintFree(mem, sg) /\ Contents(mem', File, Program.image, seg)
      BY <2>1, <3>2, <3>4, Zenon
    <3> QED BY <2>1, <3>2, <3>3, <3>5, Zenon
  <2>5. pc' # "open" /\ pc' # "prompt" /\ ~Reading' /\ ~InProgram'
    BY <2>1 DEF Reading, InProgram
  <2> HIDE DEF sg
  <2> QED BY <2>1, <2>2, <2>4, <2>5, Zenon DEF MemoryKept, Contents
<1>6. CASE Run
  <2>1. /\ UNCHANGED <<session, argv, line, elsewhere>> /\ pc = "map" /\ seg > Len(Program.image)
        /\ \/ /\ mem' = [a \in Addresses |-> IF mem[a] = Unmapped THEN Unmapped ELSE Written]
              /\ pc' \in {"program", "return"}
           \/ pc' = "crash"
    BY <1>6 DEF Run, Loaded, reader, words
  <2>2. Exists' = Exists /\ File' = File /\ Program' = Program /\ Sound' = Sound
    BY <2>1, SameProgram
  <2>3. Exists /\ seg \in Nat \ {0}
    BY <2>1 DEF Types
  <2>4. pc' # "open" /\ pc' # "prompt" /\ pc' # "map" /\ ~Reading'
    BY <2>1 DEF Reading
  <2>5. ASSUME Sound, InProgram' PROVE OnlyMapped(mem', Program.image)
    <3>1. pc' # "crash"
      BY <2>5 DEF InProgram, Reading
    <3>2. Program.image \in Seq(Segments)
      BY <2>3, <2>5, ImageTyped
    <3>3. Contents(mem, File, Program.image, seg - 1) /\ seg <= Len(Program.image) + 1
      BY <2>1, <2>5, Zenon DEF MemoryKept
    <3>4. seg - 1 = Len(Program.image)
      <4>1. Len(Program.image) \in Nat
        BY <3>2
      <4> QED BY <4>1, <2>1, <2>3, <3>3
    <3>5. \A a \in Addresses : (\A j \in 1..Len(Program.image) : a \notin Mapping(Program.image[j]))
            => mem[a] = Unmapped
      BY <3>3, <3>4, Zenon DEF Contents
    <3>6. mem' = [a \in Addresses |-> IF mem[a] = Unmapped THEN Unmapped ELSE Written]
      BY <2>1, <3>1
    <3> QED BY <3>5, <3>6, Zenon DEF OnlyMapped
  <2>6. ASSUME Sound PROVE ~elsewhere'
    BY <2>1, <2>6, Zenon DEF MemoryKept
  <2>7. Sound /\ InProgram' => OnlyMapped(mem', Program'.image)
    BY <2>2, <2>5, Zenon
  <2> QED BY <2>1, <2>2, <2>4, <2>6, <2>7, Zenon DEF MemoryKept, OnlyMapped
<1>7. CASE Unload
  <2>1. /\ session' = session /\ elsewhere' = elsewhere /\ pc = "return" /\ pc' = "prompt"
        /\ mem' = Munmap(mem, Program.image)
    BY <1>7 DEF Unload, reader, words
  <2>2. Sound' = Sound
    BY <2>1 DEF Sound
  <2>3. pc' # "open" /\ pc' # "map" /\ ~InProgram' /\ InProgram
    BY <2>1 DEF InProgram, Reading
  <2>4. Sound => mem' = NoMemory /\ ~elsewhere'
    BY <2>1, <2>3, AllUnmapped, Zenon DEF MemoryKept
  <2> QED BY <2>2, <2>3, <2>4, Zenon DEF MemoryKept
<1>8. CASE UNCHANGED vars
  <2>1. /\ UNCHANGED <<session, argv, line, seg, mem, elsewhere>> /\ caller' = caller /\ pc' = pc
    BY <1>8 DEF vars
  <2>2. Reading' = Reading /\ InProgram' = InProgram
    BY <2>1 DEF Reading, InProgram
  <2> QED BY <2>1, <2>2, SameMemory
<1> QED BY <1>1, <1>2, <1>3, <1>4, <1>5, <1>6, <1>7, <1>8 DEF Next, MainLoop, ExecFile

(* ImageLoaded: for every page size, and images whose segments fit their    *)
(* pages and share none, every program is entered with its image in memory, *)
(* each time it is run, and with nothing else there (exec_file).            *)
THEOREM ImagesLoaded == Spec => []ImageLoaded
<1>1. Types /\ MemoryKept => ImageLoaded
  <2> SUFFICES ASSUME Types, MemoryKept, Sound, Loaded
                  PROVE InPlace(mem, File, Program.image) /\ MemoryIs(mem, File, Program.image)
    BY DEF ImageLoaded
  <2>1. pc = "map" /\ seg > Len(Program.image) /\ seg \in Nat /\ Exists
    BY DEF Loaded, Types
  <2>2. Program.image \in Seq(Segments) /\ Loadable(Program.image)
    BY <2>1, ImageTyped
  <2>3. Contents(mem, File, Program.image, seg - 1) /\ seg <= Len(Program.image) + 1
    BY <2>1, Zenon DEF MemoryKept
  <2>4. seg - 1 = Len(Program.image)
    <3>1. Len(Program.image) \in Nat
      BY <2>2
    <3> QED BY <3>1, <2>1, <2>3
  <2>5. Contents(mem, File, Program.image, Len(Program.image))
    BY <2>3, <2>4, Zenon
  <2> QED BY <2>2, <2>5, AllInPlace
<1> QED BY <1>1, TypesInit, TypesNext, MemoryInit, MemoryNext, PTL DEF Spec

(* NothingMappedAtPrompt: for such images, no page of a program is mapped   *)
(* at the prompt, where exec_file asked for it or elsewhere.                *)
THEOREM NothingLeft == Spec => []NothingMappedAtPrompt
<1>1. MemoryKept => NothingMappedAtPrompt
  BY Zenon DEF MemoryKept, NothingMappedAtPrompt
<1> QED BY <1>1, TypesInit, TypesNext, MemoryInit, MemoryNext, PTL DEF Spec
----------------------------------------------------------------------------
(* Lines. *)

\* LineEnd(p) is the only position of which this holds.
EndsAt(p, e) == /\ e \in p..Len(stdin)
                /\ e = Len(stdin) \/ stdin[e + 1] = NL
                /\ \A i \in (p + 1)..e : stdin[i] # NL

(* The line that begins after position p ends at one place. *)
LEMMA LineEndIs ==
  ASSUME Types, NEW p \in 0..Len(stdin), NEW e, EndsAt(p, e)
  PROVE  LineEnd(p) = e
<1>0. Len(stdin) \in Nat
  BY StdinTyped DEF Types
<1>1. ASSUME NEW d, EndsAt(p, d) PROVE d = e
  <2>1. d \in Nat /\ e \in Nat /\ p \in Nat
    BY <1>0, <1>1 DEF EndsAt
  <2>2. ~(d < e)
    <3> SUFFICES ASSUME d < e PROVE FALSE
      OBVIOUS
    <3>1. d # Len(stdin) /\ d + 1 \in (p + 1)..e
      BY <1>0, <1>1, <2>1 DEF EndsAt
    <3> QED BY <1>1, <3>1 DEF EndsAt
  <2>3. ~(e < d)
    <3> SUFFICES ASSUME e < d PROVE FALSE
      OBVIOUS
    <3>1. e # Len(stdin) /\ e + 1 \in (p + 1)..d
      BY <1>0, <1>1, <2>1 DEF EndsAt
    <3> QED BY <1>1, <3>1 DEF EndsAt
  <2> QED BY <2>1, <2>2, <2>3
<1>2. LineEnd(p) = CHOOSE d : EndsAt(p, d)
  BY DEF LineEnd, EndsAt
<1>3. EndsAt(p, CHOOSE d : EndsAt(p, d))
  OBVIOUS
<1> QED BY <1>1, <1>2, <1>3

(* Every line ends somewhere. *)
LEMMA LineEndFound ==
  ASSUME Types, NEW p \in 0..Len(stdin)
  PROVE  EndsAt(p, LineEnd(p))
<1> DEFINE S == {d \in p..Len(stdin) : d = Len(stdin) \/ stdin[d + 1] = NL}
<1>0. Len(stdin) \in Nat
  BY StdinTyped DEF Types
<1>1. S \in SUBSET Nat /\ Len(stdin) \in S
  BY <1>0
<1>2. PICK e \in S : \A d \in S : e <= d
  BY <1>1, Smallest
<1>3. ASSUME NEW i \in (p + 1)..e, stdin[i] = NL PROVE FALSE
  <2>1. i - 1 \in p..Len(stdin) /\ (i - 1) + 1 = i /\ ~(e <= i - 1)
    BY <1>0, <1>2
  <2>2. i - 1 \in S
    BY <2>1, <1>3
  <2> QED BY <1>2, <2>1, <2>2
<1>4. EndsAt(p, e)
  BY <1>2, <1>3 DEF EndsAt
<1> QED BY <1>4, LineEndIs

(* What do_readline copied is the beginning of a line, and the end of the   *)
(* line is not behind it.                                                   *)
LEMMA CopiedIsPart ==
  ASSUME Types, Copied, NEW q \in start..Len(stdin), NoNewline(q), start + Len(buf) <= q
  PROVE  IsPrefix(buf, LineAt(start)) /\ q <= LineEnd(start)
<1> DEFINE e == LineEnd(start)
<1>0. /\ Len(stdin) \in Nat /\ stdin \in Seq(Characters) /\ start \in Nat /\ start \in 0..Len(stdin)
      /\ buf \in Seq(Characters) /\ Len(buf) \in Nat
  BY StdinTyped DEF Types
<1>1. EndsAt(start, e)
  BY <1>0, LineEndFound
<1>2. e \in start..Len(stdin) /\ (e = Len(stdin) \/ stdin[e + 1] = NL)
  BY <1>1 DEF EndsAt
<1> HIDE DEF e
<1>3. q <= e
  <2> SUFFICES ASSUME e < q PROVE FALSE
    BY <1>0, <1>2
  <2>1. e # Len(stdin) /\ e + 1 \in (start + 1)..q
    BY <1>0, <1>2
  <2> QED BY <1>2, <2>1 DEF NoNewline
<1> DEFINE l == SubSeq(stdin, start + 1, e)
<1>4. l \in Seq(Characters) /\ Len(l) = e - start /\ \A i \in 1..(e - start) : l[i] = stdin[start + i]
  BY <1>0, <1>2
<1>5. LineAt(start) = l
  BY DEF LineAt, e
<1> HIDE DEF l
<1>6. Len(buf) <= Len(l) /\ \A i \in 1..Len(buf) : buf[i] = l[i]
  BY <1>0, <1>2, <1>3, <1>4 DEF Copied
<1>7. IsPrefix(buf, l)
  BY <1>0, <1>4, <1>6 DEF IsPrefix
<1> QED BY <1>3, <1>5, <1>7 DEF e

(* A buffer that is full, or holds all of the line, holds what fits.        *)
LEMMA CopiedFits ==
  ASSUME Types, Copied, NEW e, EndsAt(start, e),
         \/ Len(buf) = Capacity /\ start + Len(buf) <= e
         \/ Len(buf) <= Capacity /\ start + Len(buf) = e
  PROVE  buf = Fitting(LineAt(start))
<1>0. /\ Len(stdin) \in Nat /\ stdin \in Seq(Characters) /\ start \in Nat /\ start \in 0..Len(stdin)
      /\ buf \in Seq(Characters) /\ Len(buf) \in Nat
  BY StdinTyped DEF Types
<1>1. LineEnd(start) = e /\ e \in start..Len(stdin) /\ e \in Nat
  <2>1. LineEnd(start) = e
    BY <1>0, LineEndIs
  <2> QED BY <1>0, <2>1 DEF EndsAt
<1> DEFINE l == SubSeq(stdin, start + 1, e)
<1>2. l \in Seq(Characters) /\ Len(l) = e - start /\ \A i \in 1..(e - start) : l[i] = stdin[start + i]
  BY <1>0, <1>1
<1>3. LineAt(start) = l
  BY <1>1 DEF LineAt
<1> HIDE DEF l
<1>4. Capacity \in Nat
  BY CapacityNat
<1>5. Len(buf) = (IF Len(l) < Capacity THEN Len(l) ELSE Capacity) /\ Len(buf) <= Len(l)
  BY <1>0, <1>1, <1>2, <1>4
<1> DEFINE r == SubSeq(l, 1, Len(buf))
<1>6. r \in Seq(Characters) /\ Len(r) = Len(buf) /\ \A i \in 1..Len(buf) : r[i] = l[i]
  BY <1>0, <1>2, <1>5
<1> HIDE DEF r
<1>7. \A i \in 1..Len(buf) : buf[i] = r[i]
  <2>1. \A i \in 1..Len(buf) : i \in 1..(e - start)
    BY <1>0, <1>1, <1>2, <1>5
  <2> QED BY <2>1, <1>2, <1>6 DEF Copied
<1>8. buf = r
  BY <1>0, <1>6, <1>7, SeqEqual
<1>9. Fitting(l) = r
  BY <1>5 DEF Fitting, r
<1> QED BY <1>3, <1>8, <1>9

\* What LineAtATime asks of a call with this outcome.
Correct(how, at) ==
  CASE how = "no" -> buf = Fitting(LineAt(start)) /\ at = NextLine(start)
    [] how = "reading" -> IsPrefix(buf, LineAt(start)) /\ at \in {start, NextLine(start)}
    [] how = "skipping" -> IsPrefix(buf, LineAt(start)) /\ at <= NextLine(start)

(* A call that returns has done so correctly. *)
LEMMA Returns ==
  ASSUME UNCHANGED <<session, caller, buf, start>>, Correct(failed', pos')
  PROVE  LineAtATime'
<1>1. /\ LineAt(start)' = LineAt(start) /\ NextLine(start)' = NextLine(start)
      /\ Fitting(LineAt(start))' = Fitting(LineAt(start))
  BY DEF LineAt, NextLine, LineEnd, Fitting, Capacity, stdin
<1> QED BY <1>1, Zenon DEF LineAtATime, Correct

(* The start of a call. *)
LEMMA Starts ==
  ASSUME NEW who, CallReadline(who), session' = session, Types, who \in {"main", "program"}
  PROVE  LineKept' /\ LineAtATime'
<1>1. /\ pc' = "read" /\ caller' = who /\ buf' = <<>> /\ start' = pos /\ failed' = "no" /\ pos' = pos
  BY DEF CallReadline
<1>2. pos \in Nat /\ Capacity' \in Nat
  <2>1. Capacity' \in Nat
    BY ConstantFacts DEF Capacity
  <2> QED BY <2>1, StdinTyped DEF Types
<1>3. Len(buf') = 0 /\ 1..Len(buf') = {} /\ (start' + 1)..pos' = {}
  BY <1>1, <1>2
<1>4. NoNewline(pos)' /\ Copied'
  BY <1>3 DEF NoNewline, Copied
<1>5. Len(buf)' <= Capacity' /\ start' + Len(buf)' <= pos' /\ pos' = start' + Len(buf)'
  BY <1>1, <1>2, <1>3
<1> QED BY <1>1, <1>4, <1>5 DEF LineKept, LineAtATime

(* No call is in progress at the start. *)
LEMMA LineInit == Init => LineKept /\ LineAtATime
BY DEF Init, LineKept, LineAtATime

(* Every step keeps LineKept and LineAtATime. *)
LEMMA LineNext == ASSUME Types, LineKept, LineAtATime, [Next]_vars PROVE LineKept' /\ LineAtATime'
<1>0. /\ Len(stdin) \in Nat /\ stdin \in Seq(Characters) /\ pos \in 0..Len(stdin) /\ pos \in Nat
      /\ start \in Nat /\ start \in 0..Len(stdin) /\ start <= pos
      /\ buf \in Seq(Characters) /\ Len(buf) \in Nat /\ Capacity \in Nat
  BY StdinTyped, CapacityNat DEF Types
<1>s. ASSUME session' = session, caller' = caller PROVE stdin' = stdin /\ Capacity' = Capacity
  BY <1>s DEF stdin, Capacity
<1>n. NextLine(start) = IF LineEnd(start) = Len(stdin) THEN Len(stdin) ELSE LineEnd(start) + 1
  BY DEF NextLine
<1>e. LineEnd(start) \in Nat /\ LineEnd(start) <= Len(stdin)
  <2>1. EndsAt(start, LineEnd(start))
    BY <1>0, LineEndFound
  <2> QED BY <1>0, <2>1 DEF EndsAt
<1>k. ASSUME pc \in {"read", "skip"}
      PROVE  /\ Len(buf) <= Capacity /\ start + Len(buf) <= pos /\ NoNewline(pos) /\ Copied
             /\ IsPrefix(buf, LineAt(start)) /\ pos <= LineEnd(start) /\ pos \in start..Len(stdin)
  <2>1. Len(buf) <= Capacity /\ start + Len(buf) <= pos /\ NoNewline(pos) /\ Copied
    BY <1>k DEF LineKept
  <2>2. pos \in start..Len(stdin)
    BY <1>0
  <2> QED BY <2>1, <2>2, CopiedIsPart
<1>1. CASE ReadChar
  <2>1. /\ pc = "read" /\ Len(buf) < Capacity /\ pos' = pos + 1 /\ pos # Len(stdin)
        /\ UNCHANGED <<session, caller, start, failed>>
    BY <1>1 DEF ReadChar, AtEnd
  <2>2. failed = "no" /\ pos = start + Len(buf)
    BY <2>1 DEF LineKept
  <2>3. CASE stdin[pos + 1] = NL
    <3>1. pc' = "line" /\ buf' = buf
      BY <1>1, <2>3 DEF ReadChar
    <3>2. EndsAt(start, pos)
      BY <1>0, <1>k, <2>1, <2>3 DEF EndsAt, NoNewline
    <3>3. LineEnd(start) = pos /\ buf = Fitting(LineAt(start))
      BY <1>0, <2>1, <2>2, <1>k, <3>2, LineEndIs, CopiedFits
    <3>4. pos' = NextLine(start)
      BY <1>n, <2>1, <3>3
    <3>5. Correct(failed', pos')
      BY <2>1, <2>2, <3>3, <3>4 DEF Correct
    <3>6. LineAtATime'
      BY <2>1, <3>1, <3>5, Returns
    <3> QED BY <3>1, <3>6 DEF LineKept
  <2>4. CASE stdin[pos + 1] # NL
    <3>1. pc' = "read" /\ buf' = Append(buf, stdin[pos + 1])
      BY <1>1, <2>1, <2>4 DEF ReadChar
    <3>2. /\ Len(buf') = Len(buf) + 1 /\ \A i \in 1..Len(buf) : buf'[i] = buf[i]
          /\ buf'[Len(buf) + 1] = stdin[pos + 1]
      BY <1>0, <3>1, AppendProperties
    <3>3. Copied'
      <4>1. stdin' = stdin
        BY <2>1, <1>s
      <4>2. \A i \in 1..Len(buf) : buf'[i] = stdin[start + i]
        BY <1>k, <2>1, <3>2 DEF Copied
      <4>3. buf'[Len(buf) + 1] = stdin[start + (Len(buf) + 1)]
        BY <1>0, <2>2, <3>2
      <4>4. \A i \in 1..Len(buf') : i \in 1..Len(buf) \/ i = Len(buf) + 1
        BY <1>0, <3>2
      <4> QED BY <2>1, <4>1, <4>2, <4>3, <4>4 DEF Copied
    <3>4. NoNewline(pos)'
      <4>1. \A i \in (start + 1)..(pos + 1) : i \in (start + 1)..pos \/ i = pos + 1
        BY <1>0
      <4> QED BY <1>s, <1>k, <2>1, <2>4, <4>1 DEF NoNewline
    <3>5. Len(buf)' <= Capacity' /\ start' + Len(buf)' <= pos' /\ pos' = start' + Len(buf)'
      BY <1>0, <1>s, <2>1, <2>2, <3>2
    <3> QED BY <2>1, <2>2, <3>1, <3>3, <3>4, <3>5 DEF LineKept, LineAtATime
  <2> QED BY <2>3, <2>4
<1>2. CASE ReadEnds
  <2>1. /\ pc = "read" /\ Len(buf) < Capacity
        /\ UNCHANGED <<session, pos, caller, buf, start>>
        /\ failed' = IF AtEnd THEN failed ELSE "reading"
        /\ pc' = "skip" \/ (buf = <<>> /\ pc' = "line")
    BY <1>2 DEF ReadEnds
  <2>2. failed = "no" /\ pos = start + Len(buf)
    BY <2>1 DEF LineKept
  <2>3. CASE pc' = "skip"
    <3>1. Copied' /\ NoNewline(pos)' /\ Len(buf)' <= Capacity' /\ start' + Len(buf)' <= pos'
      BY <1>k, <1>s, <2>1 DEF Copied, NoNewline
    <3>2. failed' # "skipping" /\ (failed' = "no" => AtEnd' /\ pos' = start' + Len(buf)')
      BY <1>s, <2>1, <2>2 DEF AtEnd
    <3> QED BY <2>3, <3>1, <3>2 DEF LineKept, LineAtATime
  <2>4. CASE pc' = "line" /\ buf = <<>>
    <3>1. Len(buf) = 0 /\ pos = start
      BY <1>0, <2>2, <2>4
    <3>2. CASE AtEnd
      <4>1. pos = Len(stdin)
        BY <3>2 DEF AtEnd
      <4>2. EndsAt(start, pos)
        BY <1>0, <1>k, <2>1, <4>1 DEF EndsAt, NoNewline
      <4>3. LineEnd(start) = pos /\ buf = Fitting(LineAt(start))
        BY <1>0, <2>1, <2>2, <1>k, <4>2, LineEndIs, CopiedFits
      <4>4. Correct(failed', pos')
        BY <1>n, <2>1, <2>2, <3>2, <4>1, <4>3 DEF Correct
      <4>5. LineAtATime'
        BY <2>1, <4>4, Returns
      <4> QED BY <2>4, <4>5 DEF LineKept
    <3>3. CASE ~AtEnd
      <4>1. Correct(failed', pos')
        BY <1>k, <2>1, <3>1, <3>3 DEF Correct
      <4>2. LineAtATime'
        BY <2>1, <4>1, Returns
      <4> QED BY <2>4, <4>2 DEF LineKept
    <3> QED BY <3>2, <3>3
  <2> QED BY <2>1, <2>3, <2>4
<1>3. CASE BufferFull
  <2>1. /\ pc = "read" /\ pc' = "skip" /\ Len(buf) = Capacity
        /\ UNCHANGED <<session, pos, caller, buf, start, failed>>
    BY <1>3 DEF BufferFull, SkipRest, reader
  <2>2. failed = "no"
    BY <2>1 DEF LineKept
  <2>3. Copied' /\ NoNewline(pos)' /\ Len(buf)' <= Capacity' /\ start' + Len(buf)' <= pos' /\ Len(buf)' = Capacity'
    BY <1>k, <1>s, <2>1 DEF Copied, NoNewline
  <2> QED BY <2>1, <2>2, <2>3 DEF LineKept, LineAtATime
<1>4. CASE SkipChar
  <2>1. /\ pc = "skip" /\ pos # Len(stdin) /\ pos' = pos + 1
        /\ pc' = IF stdin[pos + 1] = NL THEN "line" ELSE "skip"
        /\ UNCHANGED <<session, caller, buf, start, failed>>
    BY <1>4 DEF SkipChar, AtEnd
  <2>2. failed # "skipping" /\ (failed = "no" => Len(buf) = Capacity)
    BY <2>1 DEF LineKept, AtEnd
  <2>3. CASE stdin[pos + 1] = NL
    <3>1. EndsAt(start, pos)
      BY <1>0, <1>k, <2>1, <2>3 DEF EndsAt, NoNewline
    <3>2. LineEnd(start) = pos /\ pos' = NextLine(start)
      BY <1>0, <1>n, <2>1, <3>1, LineEndIs
    <3>3. failed = "no" => buf = Fitting(LineAt(start))
      BY <1>k, <2>1, <2>2, <3>1, CopiedFits
    <3>4. failed \in {"no", "reading"}
      BY <2>2 DEF Types
    <3>5. Correct(failed', pos')
      BY <1>k, <2>1, <3>2, <3>3, <3>4 DEF Correct
    <3>6. LineAtATime'
      BY <2>1, <3>5, Returns
    <3> QED BY <2>1, <2>3, <3>6 DEF LineKept
  <2>4. CASE stdin[pos + 1] # NL
    <3>1. NoNewline(pos)'
      <4>1. \A i \in (start + 1)..(pos + 1) : i \in (start + 1)..pos \/ i = pos + 1
        BY <1>0
      <4> QED BY <1>s, <1>k, <2>1, <2>4, <4>1 DEF NoNewline
    <3>2. Copied' /\ Len(buf)' <= Capacity' /\ (failed' = "no" => Len(buf)' = Capacity')
      BY <1>k, <1>s, <2>1, <2>2 DEF Copied
    <3>3. start' + Len(buf)' <= pos'
      BY <1>0, <1>k, <2>1
    <3> QED BY <2>1, <2>2, <2>4, <3>1, <3>2, <3>3 DEF LineKept, LineAtATime
  <2> QED BY <2>3, <2>4
<1>5. CASE SkipEnds
  <2>1. /\ pc = "skip" /\ pc' = "line"
        /\ failed' = IF AtEnd THEN failed ELSE "skipping"
        /\ UNCHANGED <<session, pos, caller, buf, start>>
    BY <1>5 DEF SkipEnds
  <2>2. failed # "skipping" /\ (failed = "no" => Len(buf) = Capacity \/ pos = start + Len(buf))
    BY <2>1 DEF LineKept
  <2>3. ASSUME AtEnd PROVE Correct(failed', pos')
    <3>1. pos = Len(stdin)
      BY <2>3 DEF AtEnd
    <3>2. EndsAt(start, pos)
      BY <1>0, <1>k, <2>1, <3>1 DEF EndsAt, NoNewline
    <3>3. LineEnd(start) = pos /\ pos = NextLine(start)
      BY <1>0, <1>n, <3>1, <3>2, LineEndIs
    <3>4. failed = "no" => buf = Fitting(LineAt(start))
      BY <1>k, <2>1, <2>2, <3>2, CopiedFits
    <3>5. failed \in {"no", "reading"}
      BY <2>2 DEF Types
    <3> QED BY <1>k, <2>1, <2>3, <3>3, <3>4, <3>5 DEF Correct
  <2>4. ASSUME ~AtEnd PROVE Correct(failed', pos')
    <3>1. pos <= NextLine(start)
      BY <1>0, <1>n, <1>e, <1>k, <2>1
    <3> QED BY <1>k, <2>1, <2>4, <3>1 DEF Correct
  <2>5. Correct(failed', pos')
    BY <2>3, <2>4
  <2>6. LineAtATime'
    BY <2>1, <2>5, Returns
  <2> QED BY <2>1, <2>6 DEF LineKept
<1>6. CASE Prompt
  BY <1>6, Starts DEF Prompt
<1>7. CASE ProgramReads
  BY <1>7, Starts DEF ProgramReads
<1>8. CASE \/ EchoOrIgnore \/ QuitLine \/ Command \/ Open \/ MapSegment \/ MmapFails \/ Run \/ ProgramLine
           \/ Unload
  <2>1. pc' \notin {"read", "skip", "line"}
    BY <1>8 DEF EchoOrIgnore, QuitLine, Command, Open, MapSegment, MmapFails, Run, Loaded, ProgramLine,
           Unload
  <2> QED BY <2>1 DEF LineKept, LineAtATime
<1>9. CASE UNCHANGED vars
  <2>1. /\ UNCHANGED <<session, pos, pc, caller, buf, start, failed>>
    BY <1>9 DEF vars
  <2>2. LineKept'
    BY <1>s, <2>1 DEF LineKept, Copied, NoNewline, AtEnd
  <2>3. pc = "line" => Correct(failed, pos)
    BY DEF LineAtATime, Correct
  <2>4. LineAtATime'
    <3>1. CASE pc = "line"
      BY <2>1, <2>3, <3>1, Returns
    <3>2. CASE pc # "line"
      BY <2>1, <3>2 DEF LineAtATime
    <3> QED BY <3>1, <3>2
  <2> QED BY <2>2, <2>4
<1> QED BY <1>1, <1>2, <1>3, <1>4, <1>5, <1>6, <1>7, <1>8, <1>9 DEF Next, Readline, MainLoop, ExecFile

(* Each call of do_readline takes one line of the input, whatever its       *)
(* length and the caller's buffer, and whichever reads fail.                *)
THEOREM LinesWhole == Spec => []LineAtATime
BY TypesInit, TypesNext, LineInit, LineNext, PTL DEF Spec
----------------------------------------------------------------------------
(* split.  Its loop is a recursive function; what it computes is shown by   *)
(* looking at the first round that goes wrong.                              *)

\* A line without the end-of-string character.
IsText(l) == l \in Seq(Characters)

(* A blank is not the end of a string. *)
LEMMA BlankNotEnd == Blank # NUL
BY Zenon DEF Blank, NUL

(* Next1 finds the next position where the word test gives b, or the end.   *)
LEMMA NextFound ==
  ASSUME NEW l, Len(l) \in Nat, NEW p \in 1..(Len(l) + 1), NEW b \in BOOLEAN
  PROVE  /\ Next1(l, p, b) \in p..(Len(l) + 1)
         /\ Next1(l, p, b) = Len(l) + 1 \/ (IsWord(l, Next1(l, p, b)) = b)
         /\ \A j \in p..(Next1(l, p, b) - 1) : IsWord(l, j) # b
<1> DEFINE S == {i \in p..(Len(l) + 1) : i = Len(l) + 1 \/ (IsWord(l, i) = b)}
<1>1. S \in SUBSET Nat /\ Len(l) + 1 \in S
  OBVIOUS
<1>2. PICK e \in S : \A d \in S : e <= d
  BY <1>1, Smallest
<1>3. ASSUME NEW j \in p..(e - 1) PROVE IsWord(l, j) # b
  <2>1. j \in p..(Len(l) + 1) /\ ~(e <= j)
    BY <1>2
  <2>2. j \notin S
    BY <1>2, <2>1
  <2> QED BY <2>1, <2>2
<1>4. /\ e \in p..(Len(l) + 1)
      /\ e = Len(l) + 1 \/ (IsWord(l, e) = b)
      /\ \A j \in p..(e - 1) : IsWord(l, j) # b
  BY <1>2, <1>3
<1> HIDE DEF S
<1> QED BY <1>4, Zenon DEF Next1

(* The next word. *)
LEMMA WordFound ==
  ASSUME NEW l, Len(l) \in Nat, NEW p \in 1..(Len(l) + 1)
  PROVE  /\ Next1(l, p, TRUE) \in p..(Len(l) + 1)
         /\ Next1(l, p, TRUE) = Len(l) + 1 \/ IsWord(l, Next1(l, p, TRUE))
         /\ \A j \in p..(Next1(l, p, TRUE) - 1) : ~IsWord(l, j)
BY NextFound, Zenon
(* The end of the word that begins here. *)
LEMMA GapFound ==
  ASSUME NEW l, Len(l) \in Nat, NEW p \in 1..(Len(l) + 1)
  PROVE  /\ Next1(l, p, FALSE) \in p..(Len(l) + 1)
         /\ ~IsWord(l, Next1(l, p, FALSE))
         /\ \A j \in p..(Next1(l, p, FALSE) - 1) : IsWord(l, j)
<1>1. /\ Next1(l, p, FALSE) \in p..(Len(l) + 1)
      /\ Next1(l, p, FALSE) = Len(l) + 1 \/ ~IsWord(l, Next1(l, p, FALSE))
      /\ \A j \in p..(Next1(l, p, FALSE) - 1) : IsWord(l, j)
  BY NextFound, Zenon DEF IsWord
<1>2. ~IsWord(l, Len(l) + 1)
  BY DEF IsWord
<1> QED BY <1>1, <1>2, Zenon

\* The line when split has come to position p.
Masked(l, p) == [i \in 1..Len(l) |-> IF i < p /\ l[i] = Blank THEN NUL ELSE l[i]]
\* The words that begin before p.
Before(l, p) == {i \in WordStarts(l) : i < p}

(* Masking a line changes no word. *)
LEMMA MaskedText ==
  ASSUME NEW l, IsText(l), NEW p \in 1..(Len(l) + 1)
  PROVE  /\ Masked(l, p) \in Seq(Characters \cup {NUL}) /\ Len(Masked(l, p)) = Len(l)
         /\ \A i \in 1..Len(l) : Masked(l, p)[i] = IF i < p /\ l[i] = Blank THEN NUL ELSE l[i]
         /\ \A i \in Int : IsWord(Masked(l, p), i) <=> IsWord(l, i)
         /\ Len(l) \in Nat /\ \A i \in 1..Len(l) : l[i] \in Characters /\ l[i] # NUL
<1>1. Len(l) \in Nat /\ \A i \in 1..Len(l) : l[i] \in Characters /\ l[i] # NUL
  BY ConstantFacts DEF IsText
<1>2. \A i \in 1..Len(l) : (IF i < p /\ l[i] = Blank THEN NUL ELSE l[i]) \in Characters \cup {NUL}
  BY <1>1
<1>3. Masked(l, p) \in Seq(Characters \cup {NUL}) /\ Len(Masked(l, p)) = Len(l)
  BY <1>1, <1>2, IsASeq DEF Masked
<1>4. \A i \in 1..Len(l) : Masked(l, p)[i] = IF i < p /\ l[i] = Blank THEN NUL ELSE l[i]
  BY Zenon DEF Masked
<1>5. \A i \in Int : IsWord(Masked(l, p), i) <=> IsWord(l, i)
  BY <1>3, <1>4, Zenon DEF IsWord
<1> QED BY <1>1, <1>3, <1>4, <1>5

(* Writing NULs over the blanks from p to q masks the line up to q.         *)
LEMMA MaskOn ==
  ASSUME NEW l, IsText(l), NEW p \in 1..(Len(l) + 1), NEW q \in p..(Len(l) + 1),
         \A j \in p..(q - 1) : ~IsWord(l, j)
  PROVE  Nuls(Masked(l, p), p, q) = Masked(l, q)
<1> DEFINE m == Masked(l, p)
<1>1. /\ Len(m) = Len(l) /\ Len(l) \in Nat
      /\ \A i \in 1..Len(l) : m[i] = IF i < p /\ l[i] = Blank THEN NUL ELSE l[i]
  BY MaskedText
<1> HIDE DEF m
<1>2. ASSUME NEW i \in 1..Len(l)
      PROVE  (IF i \in p..(q - 1) THEN NUL ELSE m[i]) = (IF i < q /\ l[i] = Blank THEN NUL ELSE l[i])
  <2>1. CASE i \in p..(q - 1)
    <3>1. l[i] = Blank
      BY <1>2, <2>1, MaskedText DEF IsWord
    <3> QED BY <2>1, <3>1
  <2>2. CASE i \notin p..(q - 1)
    <3>1. i < p <=> i < q
      BY <1>1, <2>2
    <3> QED BY <1>1, <2>2, <3>1
  <2> QED BY <2>1, <2>2
<1> QED BY <1>1, <1>2, Zenon DEF Nuls, Masked, m

(* Going on over a word masks nothing.                                      *)
LEMMA MaskOver ==
  ASSUME NEW l, IsText(l), NEW p \in 1..(Len(l) + 1), NEW q \in p..(Len(l) + 1),
         \A j \in p..(q - 1) : IsWord(l, j)
  PROVE  Masked(l, p) = Masked(l, q)
<1>1. ASSUME NEW i \in 1..Len(l) PROVE i < p /\ l[i] = Blank <=> i < q /\ l[i] = Blank
  <2>1. Len(l) \in Nat
    BY DEF IsText
  <2>2. i \in p..(q - 1) => l[i] # Blank
    BY DEF IsWord
  <2> QED BY <2>1, <2>2
<1> QED BY <1>1, Zenon DEF Masked

(* The words before a position, and how their number tells them apart.      *)
LEMMA WordsFinite ==
  ASSUME NEW l, Len(l) \in Nat, NEW p \in Int
  PROVE  /\ IsFiniteSet(WordStarts(l)) /\ Cardinality(WordStarts(l)) \in Nat
         /\ IsFiniteSet(Before(l, p)) /\ Cardinality(Before(l, p)) \in Nat
         /\ Cardinality(Before(l, p)) <= Cardinality(WordStarts(l))
         /\ \A i \in WordStarts(l) : i \in 1..Len(l) /\ i \in Nat /\ IsWord(l, i) /\ ~IsWord(l, i - 1)
<1>1. \A i \in WordStarts(l) : i \in 1..Len(l) /\ i \in Nat /\ IsWord(l, i) /\ ~IsWord(l, i - 1)
  BY DEF WordStarts
<1>2. IsFiniteSet(1..Len(l))
  BY FS_Interval
<1>3. IsFiniteSet(WordStarts(l))
  BY <1>1, <1>2, FS_Subset
<1>4. Before(l, p) \in SUBSET WordStarts(l)
  BY DEF Before
<1> QED BY <1>1, <1>3, <1>4, FS_Subset, FS_CardinalityType

(* A word before another has fewer words before it. *)
LEMMA EarlierFewer ==
  ASSUME NEW l, Len(l) \in Nat, NEW i \in WordStarts(l), NEW p \in Int, i < p
  PROVE  Cardinality(Before(l, i)) + 1 <= Cardinality(Before(l, p))
<1>1. i \in Nat
  BY WordsFinite
<1>2. /\ IsFiniteSet(Before(l, i)) /\ IsFiniteSet(Before(l, p))
      /\ Cardinality(Before(l, i)) \in Nat
  BY <1>1, WordsFinite
<1>3. i \notin Before(l, i) /\ i \in Before(l, p)
  BY <1>1 DEF Before
<1>4. \A j \in Before(l, i) : j \in Before(l, p)
  <2>1. \A j \in WordStarts(l) : j \in Nat
    BY WordsFinite
  <2> QED BY <1>1, <2>1 DEF Before
<1>5. Before(l, i) \cup {i} \in SUBSET Before(l, p)
  BY <1>3, <1>4
<1>6. Cardinality(Before(l, i) \cup {i}) = Cardinality(Before(l, i)) + 1
  BY <1>2, <1>3, FS_AddElement
<1>7. Cardinality(Before(l, i) \cup {i}) <= Cardinality(Before(l, p))
  BY <1>2, <1>5, FS_Subset
<1> QED BY <1>6, <1>7

(* Words with equally many words before them are one word. *)
LEMMA SameRank ==
  ASSUME NEW l, Len(l) \in Nat, NEW i \in WordStarts(l), NEW j \in WordStarts(l),
         Cardinality(Before(l, i)) = Cardinality(Before(l, j))
  PROVE  i = j
<1>1. i \in Nat /\ j \in Nat
  BY WordsFinite
<1>2. Cardinality(Before(l, i)) \in Nat
  BY <1>1, WordsFinite
<1>3. ~(i < j) /\ ~(j < i)
  BY <1>1, <1>2, EarlierFewer
<1> QED BY <1>1, <1>3

\* The loop of split: its start, and one round.
Begun(l) == [line |-> l, argv |-> <<>>, at |-> 1]
Round(l, r) ==
  LET q == Next1(r.line, r.at, TRUE)
      m == Nuls(r.line, r.at, q)
  IN  IF q > Len(l) THEN [line |-> m, argv |-> r.argv, at |-> q]
      ELSE [line |-> m, argv |-> Append(r.argv, q), at |-> Next1(m, q, FALSE)]
Rounds(l, f, k) == f = [n \in 0..k |-> IF n = 0 THEN Begun(l) ELSE Round(l, f[n - 1])]

(* The rounds of the loop are well defined. *)
LEMMA RoundsExist == ASSUME NEW l, NEW k \in Nat PROVE \E f : Rounds(l, f, k)
<1> DEFINE S == {n \in Nat : ~\E f : Rounds(l, f, n)}
<1> SUFFICES ASSUME S # {} PROVE FALSE
  OBVIOUS
<1>1. PICK n \in S : \A m \in S : n <= m
  BY Smallest
<1>2. n # 0
  <2> DEFINE g == [m \in 0..0 |-> Begun(l)]
  <2>1. g = [m \in 0..0 |-> IF m = 0 THEN Begun(l) ELSE Round(l, g[m - 1])]
    OBVIOUS
  <2>2. Rounds(l, g, 0)
    BY <2>1, Zenon DEF Rounds
  <2> QED BY <1>1, <2>2
<1>3. n - 1 \in Nat /\ n - 1 \notin S
  BY <1>1, <1>2
<1>4. PICK f : Rounds(l, f, n - 1)
  BY <1>3
<1> DEFINE g == [m \in 0..n |-> IF m = n THEN Round(l, f[n - 1]) ELSE f[m]]
<1>5. \A m \in 0..(n - 1) : f[m] = IF m = 0 THEN Begun(l) ELSE Round(l, f[m - 1])
  BY <1>4, Zenon DEF Rounds
<1>6. ASSUME NEW m \in 0..n PROVE g[m] = IF m = 0 THEN Begun(l) ELSE Round(l, g[m - 1])
  <2>1. CASE m = n
    <3>1. n - 1 \in 0..n /\ n - 1 # n
      BY <1>3
    <3> QED BY <1>2, <2>1, <3>1
  <2>2. CASE m # n
    <3>1. m \in 0..(n - 1)
      BY <1>3, <2>2
    <3>2. m # 0 => m - 1 \in 0..n /\ m - 1 # n
      BY <3>1, <1>3
    <3> QED BY <2>2, <3>1, <3>2, <1>5
  <2> QED BY <2>1, <2>2
<1>7. g = [m \in 0..n |-> IF m = 0 THEN Begun(l) ELSE Round(l, g[m - 1])]
  <2> HIDE DEF g
  <2>1. g = [m \in 0..n |-> g[m]]
    BY DEF g
  <2> QED BY <2>1, <1>6, Zenon
<1>8. Rounds(l, g, n)
  BY <1>7, Zenon DEF Rounds
<1> QED BY <1>1, <1>8

(* split's result is that of MaxArgs rounds. *)
LEMMA SplitRounds == ASSUME NEW l PROVE \E f : Rounds(l, f, MaxArgs) /\ Split(l) = f[MaxArgs]
<1>1. \E f : Rounds(l, f, MaxArgs)
  BY ConstantFacts, RoundsExist
<1>2. Split(l) = (CHOOSE f : Rounds(l, f, MaxArgs))[MaxArgs]
  BY DEF Split, Rounds, Round, Begun, Room
<1> QED BY <1>1, <1>2

\* After n rounds: the words so far are the n first, or all there are.
Rounded(l, r, n) ==
  /\ r.at \in 1..(Len(l) + 1) /\ r.line = Masked(l, r.at)
  /\ r.at = 1 \/ ~IsWord(l, r.at)
  /\ r.argv \in Seq(Nat) /\ Len(r.argv) = Cardinality(Before(l, r.at))
  /\ \A k \in 1..Len(r.argv) : /\ r.argv[k] \in Before(l, r.at)
                               /\ Cardinality(Before(l, r.argv[k])) = k - 1
  /\ Len(r.argv) = n \/ (Len(r.argv) < n /\ r.at = Len(l) + 1)

(* Before the first round nothing is found. *)
LEMMA NoRound == ASSUME NEW l, IsText(l) PROVE Rounded(l, Begun(l), 0)
<1> DEFINE r == Begun(l)
<1>1. r.line = l /\ r.argv = <<>> /\ r.at = 1
  BY DEF Begun
<1>2. Len(l) \in Nat /\ l = [i \in 1..Len(l) |-> l[i]]
  BY DEF IsText
<1>3. l = Masked(l, 1)
  <2>1. \A i \in 1..Len(l) : ~(i < 1)
    OBVIOUS
  <2> QED BY <1>2, <2>1, Zenon DEF Masked
<1>4. Before(l, 1) = {}
  <2>1. \A i \in WordStarts(l) : i \in 1..Len(l)
    BY DEF WordStarts
  <2>2. \A i \in 1..Len(l) : ~(i < 1)
    BY <1>2
  <2>3. \A i \in WordStarts(l) : ~(i < 1)
    BY <2>1, <2>2, Zenon
  <2> QED BY <2>3 DEF Before
<1>5. Cardinality(Before(l, 1)) = 0
  BY <1>4, FS_EmptySet
<1>6. <<>> \in Seq(Nat) /\ Len(<<>>) = 0
  OBVIOUS
<1>7. 1..0 = {} /\ 1 \in 1..(Len(l) + 1)
  BY <1>2
<1> HIDE DEF r
<1> QED BY <1>1, <1>3, <1>5, <1>6, <1>7, Zenon DEF Rounded, r

(* A round finds the next word, if there is one. *)
LEMMA OneRound ==
  ASSUME NEW l, IsText(l), NEW r, NEW n \in Nat, Rounded(l, r, n)
  PROVE  Rounded(l, Round(l, r), n + 1)
<1> DEFINE q == Next1(r.line, r.at, TRUE)
           m == Nuls(r.line, r.at, q)
           e == Next1(m, q, FALSE)
<1>1. /\ r.at \in 1..(Len(l) + 1) /\ r.line = Masked(l, r.at) /\ r.argv \in Seq(Nat)
      /\ r.at = 1 \/ ~IsWord(l, r.at)
      /\ Len(r.argv) = Cardinality(Before(l, r.at))
      /\ \A k \in 1..Len(r.argv) : /\ r.argv[k] \in Before(l, r.at)
                                   /\ Cardinality(Before(l, r.argv[k])) = k - 1
      /\ Len(r.argv) = n \/ (Len(r.argv) < n /\ r.at = Len(l) + 1)
  BY DEF Rounded
<1>2. Len(l) \in Nat /\ r.at \in Nat /\ Len(r.argv) \in Nat
  <2>1. Len(l) \in Nat
    BY DEF IsText
  <2> QED BY <1>1, <2>1
<1>3. Len(r.line) = Len(l) /\ \A i \in Int : IsWord(r.line, i) <=> IsWord(l, i)
  BY <1>1, MaskedText
<1>4. /\ q \in r.at..(Len(l) + 1)
      /\ q = Len(l) + 1 \/ IsWord(l, q)
      /\ \A j \in r.at..(q - 1) : ~IsWord(l, j)
  <2>1. /\ q \in r.at..(Len(r.line) + 1)
        /\ q = Len(r.line) + 1 \/ IsWord(r.line, q)
        /\ \A j \in r.at..(q - 1) : ~IsWord(r.line, j)
    BY <1>1, <1>2, <1>3, WordFound
  <2> HIDE DEF q
  <2>2. q \in Int
    BY <1>2, <1>3, <2>1
  <2>3. \A j \in r.at..(q - 1) : j \in Int
    BY <1>2, <2>2
  <2> QED BY <1>3, <2>1, <2>2, <2>3, Zenon
<1> HIDE DEF q
<1>5. q \in 1..(Len(l) + 1) /\ q \in Nat
  BY <1>1, <1>2, <1>4
<1>6. m = Masked(l, q)
  BY <1>1, <1>4, MaskOn
<1> HIDE DEF m
<1>7. Before(l, q) = Before(l, r.at)
  <2>1. ASSUME NEW i \in WordStarts(l) PROVE i < q <=> i < r.at
    <3>1. i \in Nat /\ IsWord(l, i)
      BY <1>2, WordsFinite
    <3>2. i \notin r.at..(q - 1)
      BY <1>4, <3>1
    <3> QED BY <1>2, <1>4, <1>5, <3>1, <3>2
  <2> QED BY <2>1 DEF Before
<1>8. CASE q > Len(l)
  <2> DEFINE s == Round(l, r)
  <2>1. q = Len(l) + 1
    BY <1>2, <1>5, <1>8
  <2>2. s.line = m /\ s.argv = r.argv /\ s.at = q
    BY <1>8 DEF Round, q, m
  <2>3. ~IsWord(l, q)
    BY <2>1 DEF IsWord
  <2>4. Len(r.argv) = n + 1 \/ (Len(r.argv) < n + 1 /\ q = Len(l) + 1)
    BY <1>1, <1>2, <2>1
  <2> HIDE DEF s
  <2> QED BY <1>1, <1>5, <1>6, <1>7, <2>2, <2>3, <2>4, Zenon DEF Rounded, s
<1>9. CASE ~(q > Len(l))
  <2> DEFINE s == Round(l, r)
  <2>1. q # Len(l) + 1 /\ IsWord(l, q) /\ q \in 1..Len(l)
    BY <1>2, <1>4, <1>5, <1>9
  <2>2. s.line = m /\ s.argv = Append(r.argv, q) /\ s.at = e
    BY <1>9 DEF Round, q, m, e
  <2>3. /\ e \in q..(Len(l) + 1) /\ ~IsWord(l, e) /\ \A j \in q..(e - 1) : IsWord(l, j)
    <3>1. Len(m) = Len(l) /\ \A i \in Int : IsWord(m, i) <=> IsWord(l, i)
      BY <1>5, <1>6, MaskedText
    <3>2. e \in q..(Len(m) + 1) /\ ~IsWord(m, e) /\ \A j \in q..(e - 1) : IsWord(m, j)
      BY <1>2, <1>5, <3>1, GapFound
    <3> HIDE DEF e
    <3>3. e \in Int
      BY <1>2, <1>5, <3>1, <3>2
    <3>4. \A j \in q..(e - 1) : j \in Int
      BY <1>5, <3>3
    <3> QED BY <3>1, <3>2, <3>3, <3>4, Zenon
  <2> HIDE DEF e
  <2>4. e \in 1..(Len(l) + 1) /\ e \in Nat /\ q < e
    <3>1. e # q
      BY <2>1, <2>3
    <3> QED BY <1>2, <1>5, <2>3, <3>1
  <2>5. m = Masked(l, e)
    BY <1>5, <1>6, <2>3, MaskOver
  <2>6. ~IsWord(l, q - 1)
    <3>1. CASE q = r.at
      <4>1. q = 1
        BY <1>1, <2>1, <3>1
      <4> QED BY <4>1 DEF IsWord
    <3>2. CASE q # r.at
      <4>1. q - 1 \in r.at..(q - 1)
        BY <1>2, <1>4, <1>5, <3>2
      <4> QED BY <1>4, <4>1
    <3> QED BY <3>1, <3>2
  <2>7. q \in WordStarts(l)
    BY <2>1, <2>6 DEF WordStarts
  <2>8. Before(l, e) = Before(l, q) \cup {q} /\ q \notin Before(l, q)
    <3>1. ASSUME NEW i \in WordStarts(l) PROVE i < e <=> i < q \/ i = q
      <4>1. i \in Nat /\ ~IsWord(l, i - 1)
        BY <1>2, WordsFinite
      <4>2. i - 1 \notin q..(e - 1)
        BY <2>3, <4>1
      <4> QED BY <1>5, <2>4, <4>1, <4>2
    <3>2. ~(q < q)
      BY <1>5
    <3> QED BY <2>7, <3>1, <3>2 DEF Before
  <2>9. Cardinality(Before(l, e)) = Len(r.argv) + 1
    <3>1. IsFiniteSet(Before(l, q))
      BY <1>2, <1>5, WordsFinite
    <3>2. Cardinality(Before(l, q) \cup {q}) = Cardinality(Before(l, q)) + 1
      BY <2>8, <3>1, FS_AddElement
    <3>3. Cardinality(Before(l, q)) = Len(r.argv)
      BY <1>1, <1>7, Zenon
    <3> QED BY <2>8, <3>2, <3>3, Zenon
  <2>10. /\ s.argv \in Seq(Nat) /\ Len(s.argv) = Len(r.argv) + 1
         /\ \A k \in 1..Len(r.argv) : s.argv[k] = r.argv[k]
         /\ s.argv[Len(r.argv) + 1] = q
    <3> HIDE DEF s
    <3> QED BY <1>1, <1>5, <2>2, AppendProperties
  <2> HIDE DEF s
  <2>11. ASSUME NEW k \in 1..Len(s.argv)
         PROVE  s.argv[k] \in Before(l, e) /\ Cardinality(Before(l, s.argv[k])) = k - 1
    <3>1. CASE k \in 1..Len(r.argv)
      BY <1>1, <1>7, <2>8, <2>10, <3>1
    <3>2. CASE k = Len(r.argv) + 1
      BY <1>1, <1>2, <1>7, <2>8, <2>10, <3>2
    <3> QED BY <1>2, <2>10, <3>1, <3>2
  <2>12. Len(r.argv) = n
    <3>1. r.at # Len(l) + 1
      BY <1>2, <1>4, <1>5, <2>1
    <3> QED BY <1>1, <3>1
  <2>13. Len(s.argv) = n + 1
    BY <2>10, <2>12
  <2> QED BY <2>2, <2>3, <2>4, <2>5, <2>9, <2>10, <2>11, <2>13 DEF Rounded, s
<1> QED BY <1>8, <1>9

(* What split returns. *)
LEMMA SplitFinds == ASSUME NEW l, IsText(l) PROVE Rounded(l, Split(l), MaxArgs)
<1>1. PICK f : Rounds(l, f, MaxArgs) /\ Split(l) = f[MaxArgs]
  BY SplitRounds
<1>2. \A k \in 0..MaxArgs : f[k] = IF k = 0 THEN Begun(l) ELSE Round(l, f[k - 1])
  BY <1>1, Zenon DEF Rounds
<1>3. MaxArgs \in Nat \ {0}
  BY ConstantFacts
<1> DEFINE S == {k \in 0..MaxArgs : ~Rounded(l, f[k], k)}
<1>4. S = {}
  <2> SUFFICES ASSUME S # {} PROVE FALSE
    OBVIOUS
  <2>1. S \in SUBSET Nat
    BY <1>3
  <2>2. PICK k \in S : \A j \in S : k <= j
    BY <2>1, Smallest
  <2>3. k # 0
    <3>1. f[0] = Begun(l)
      BY <1>2, <1>3
    <3> QED BY <2>2, <3>1, NoRound
  <2>4. k - 1 \in 0..MaxArgs /\ k - 1 \in Nat /\ (k - 1) + 1 = k /\ ~(k <= k - 1)
    BY <1>3, <2>2, <2>3
  <2>5. Rounded(l, f[k - 1], k - 1)
    BY <2>2, <2>4
  <2>6. f[k] = Round(l, f[k - 1])
    BY <1>2, <2>2, <2>3
  <2>7. Rounded(l, f[k], (k - 1) + 1)
    BY <2>4, <2>5, <2>6, OneRound
  <2> QED BY <2>2, <2>4, <2>7
<1>5. MaxArgs \in 0..MaxArgs
  BY <1>3
<1> QED BY <1>1, <1>4, <1>5

(* StringAt is what it looks like: up to the first NUL, or the end. *)
LEMMA StringFound ==
  ASSUME NEW m, Len(m) \in Nat, NEW i \in 1..(Len(m) + 1)
  PROVE  \E e \in i..(Len(m) + 1) :
           /\ e = Len(m) + 1 \/ m[e] = NUL
           /\ \A j \in i..(e - 1) : m[j] # NUL
           /\ StringAt(m, i) = SubSeq(m, i, e - 1)
<1> DEFINE S == {e \in i..(Len(m) + 1) : e = Len(m) + 1 \/ m[e] = NUL}
           Ends(e) == /\ e = Len(m) + 1 \/ m[e] = NUL
                      /\ \A j \in i..(e - 1) : m[j] # NUL
<1>1. S \in SUBSET Nat /\ Len(m) + 1 \in S
  OBVIOUS
<1>2. PICK e \in S : \A d \in S : e <= d
  BY <1>1, Smallest
<1>3. ASSUME NEW j \in i..(e - 1) PROVE m[j] # NUL
  <2>1. j \in i..(Len(m) + 1) /\ ~(e <= j)
    BY <1>2
  <2>2. j \notin S
    BY <1>2, <2>1
  <2> QED BY <2>1, <2>2
<1>4. e \in i..(Len(m) + 1) /\ Ends(e)
  BY <1>2, <1>3
<1> DEFINE f == CHOOSE d \in i..(Len(m) + 1) : Ends(d)
<1> HIDE DEF S
<1>5. StringAt(m, i) = SubSeq(m, i, f - 1)
  BY Zenon DEF StringAt
<1> HIDE DEF Ends
<1>6. f \in i..(Len(m) + 1) /\ Ends(f)
  BY <1>4, Zenon
<1> HIDE DEF f
<1> QED BY <1>5, <1>6, Zenon DEF Ends

(* What split leaves at a word it found: the word alone, if a gap behind it *)
(* was masked, and the word with what follows it otherwise.                 *)
LEMMA StringIsWord ==
  ASSUME NEW l, IsText(l), NEW p \in 1..(Len(l) + 1), NEW i \in 1..Len(l), i < p
  PROVE  /\ IsPrefix(WordFrom(l, i), StringAt(Masked(l, p), i))
         /\ Next1(l, i, FALSE) < p \/ p = Len(l) + 1 => StringAt(Masked(l, p), i) = WordFrom(l, i)
<1> DEFINE m == Masked(l, p)
           w == Next1(l, i, FALSE)
<1>1. /\ Len(l) \in Nat /\ l \in Seq(Characters) /\ \A k \in 1..Len(l) : l[k] # NUL
      /\ m \in Seq(Characters \cup {NUL}) /\ Len(m) = Len(l)
      /\ \A k \in 1..Len(l) : m[k] = IF k < p /\ l[k] = Blank THEN NUL ELSE l[k]
  BY MaskedText DEF IsText
<1>2. i \in 1..(Len(l) + 1) /\ i \in Nat
  BY <1>1
<1>3. w \in i..(Len(l) + 1) /\ ~IsWord(l, w) /\ \A j \in i..(w - 1) : IsWord(l, j)
  BY <1>1, <1>2, GapFound
<1>4. PICK e \in i..(Len(m) + 1) : /\ e = Len(m) + 1 \/ m[e] = NUL
                                   /\ \A j \in i..(e - 1) : m[j] # NUL
                                   /\ StringAt(m, i) = SubSeq(m, i, e - 1)
  BY <1>1, <1>2, StringFound
<1> HIDE DEF m, w
<1>5. w \in Nat /\ e \in Nat
  BY <1>1, <1>2, <1>3
<1>6. \A j \in i..(w - 1) : j \in 1..Len(l) /\ m[j] = l[j] /\ m[j] # NUL
  BY <1>1, <1>3 DEF IsWord
<1>7. w <= e
  <2> SUFFICES ASSUME e < w PROVE FALSE
    BY <1>5
  <2>1. e \in i..(w - 1) /\ e # Len(m) + 1
    BY <1>1, <1>3, <1>5
  <2> QED BY <1>4, <1>6, <2>1
<1> DEFINE a == SubSeq(l, i, w - 1)
           b == SubSeq(m, i, e - 1)
<1>8. /\ a \in Seq(Characters) /\ Len(a) = w - i
      /\ \A k \in 1..(w - i) : a[k] = l[i + k - 1]
  BY <1>1, <1>2, <1>3, <1>5
<1>9. /\ b \in Seq(Characters \cup {NUL}) /\ Len(b) = e - i
      /\ \A k \in 1..(e - i) : b[k] = m[i + k - 1]
  BY <1>1, <1>2, <1>5
<1>10. WordFrom(l, i) = a /\ StringAt(m, i) = b
  BY <1>4, Zenon DEF WordFrom, w
<1> HIDE DEF a, b
<1>11. \A k \in 1..(w - i) : a[k] = b[k]
  <2> SUFFICES ASSUME NEW k \in 1..(w - i) PROVE a[k] = b[k]
    OBVIOUS
  <2>1. i + k - 1 \in i..(w - 1) /\ k \in 1..(e - i)
    BY <1>2, <1>5, <1>7
  <2> QED BY <1>6, <1>8, <1>9, <2>1
<1>12. IsPrefix(a, b)
  <2>1. Len(a) <= Len(b) /\ Len(a) \in Nat /\ \A k \in 1..Len(a) : a[k] = b[k]
    BY <1>2, <1>3, <1>5, <1>7, <1>8, <1>9, <1>11
  <2> DEFINE t == SubSeq(b, 1, Len(a))
  <2>2. /\ t \in Seq(Characters \cup {NUL}) /\ Len(t) = Len(a)
        /\ \A k \in 1..Len(a) : t[k] = b[k]
    BY <1>9, <2>1
  <2> HIDE DEF t
  <2>3. a \in Seq(Characters \cup {NUL})
    BY <1>8
  <2>4. a = t
    BY <2>1, <2>2, <2>3, SeqEqual
  <2>5. SubSeq(a, 1, Len(a)) = a
    BY <1>8
  <2> QED BY <2>1, <2>4, <2>5, Zenon DEF IsPrefix, t
<1>13. ASSUME w < p \/ p = Len(l) + 1 PROVE b = a
  <2>1. w = Len(m) + 1 \/ m[w] = NUL
    <3> SUFFICES ASSUME w # Len(m) + 1 PROVE m[w] = NUL
      OBVIOUS
    <3>1. w \in 1..Len(l) /\ w < p
      BY <1>1, <1>2, <1>3, <1>5, <1>13
    <3>2. l[w] = Blank
      BY <1>1, <1>3, <3>1 DEF IsWord
    <3> QED BY <1>1, <3>1, <3>2
  <2>2. ~(w < e)
    <3> SUFFICES ASSUME w < e PROVE FALSE
      OBVIOUS
    <3>1. w \in i..(e - 1) /\ w # Len(m) + 1
      BY <1>1, <1>3, <1>4, <1>5
    <3> QED BY <1>4, <2>1, <3>1
  <2>3. w = e
    BY <1>5, <1>7, <2>2
  <2>4. Len(a) = Len(b) /\ \A k \in 1..Len(a) : a[k] = b[k]
    BY <1>8, <1>9, <1>11, <2>3, <1>5, <1>3
  <2>5. a \in Seq(Characters \cup {NUL})
    BY <1>8
  <2> HIDE DEF m
  <2> QED BY <1>9, <2>4, <2>5, SeqEqual
<1> QED BY <1>10, <1>12, <1>13 DEF m, w

(* What do_getarg gives after split, for every word of the line. *)
LEMMA SplitGives ==
  ASSUME NEW l, IsText(l), NEW r, Rounded(l, r, MaxArgs)
  PROVE  /\ Len(r.argv) = (IF Cardinality(WordStarts(l)) < MaxArgs
                             THEN Cardinality(WordStarts(l)) ELSE MaxArgs)
         /\ \A i \in WordStarts(l) :
              LET n == Cardinality(Before(l, i))
              IN  /\ n \in Nat
                  /\ n < MaxArgs - 1 => /\ n < Len(r.argv)
                                        /\ StringAt(r.line, r.argv[n + 1]) = WordFrom(l, i)
                  /\ n = MaxArgs - 1 => /\ n < Len(r.argv)
                                        /\ IsPrefix(WordFrom(l, i), StringAt(r.line, r.argv[n + 1]))
                  /\ n > MaxArgs - 1 => n >= Len(r.argv)
<1> DEFINE c == Cardinality(WordStarts(l))
<1>1. /\ r.at \in 1..(Len(l) + 1) /\ r.line = Masked(l, r.at) /\ r.argv \in Seq(Nat)
      /\ Len(r.argv) = Cardinality(Before(l, r.at))
      /\ \A k \in 1..Len(r.argv) : /\ r.argv[k] \in Before(l, r.at)
                                   /\ Cardinality(Before(l, r.argv[k])) = k - 1
      /\ Len(r.argv) = MaxArgs \/ (Len(r.argv) < MaxArgs /\ r.at = Len(l) + 1)
  BY DEF Rounded
<1>2. Len(l) \in Nat /\ MaxArgs \in Nat \ {0} /\ Len(r.argv) \in Nat /\ r.at \in Nat
  <2>1. Len(l) \in Nat
    BY DEF IsText
  <2> QED BY <1>1, <2>1, ConstantFacts
<1>3. c \in Nat /\ Len(r.argv) <= c
  <2>1. r.at \in Int
    BY <1>2
  <2>2. c \in Nat /\ Cardinality(Before(l, r.at)) <= c
    BY <1>2, <2>1, WordsFinite
  <2> QED BY <1>1, <2>2
<1>4. Before(l, Len(l) + 1) = WordStarts(l)
  <2>1. \A i \in WordStarts(l) : i < Len(l) + 1
    BY <1>2, WordsFinite
  <2> QED BY <2>1 DEF Before
<1>5. r.at = Len(l) + 1 => Len(r.argv) = c
  BY <1>1, <1>4
<1>6. Len(r.argv) = IF c < MaxArgs THEN c ELSE MaxArgs
  BY <1>1, <1>2, <1>3, <1>5
<1>7. ASSUME NEW i \in WordStarts(l)
      PROVE  LET n == Cardinality(Before(l, i))
             IN  /\ n \in Nat
                 /\ n < MaxArgs - 1 => /\ n < Len(r.argv)
                                       /\ StringAt(r.line, r.argv[n + 1]) = WordFrom(l, i)
                 /\ n = MaxArgs - 1 => /\ n < Len(r.argv)
                                       /\ IsPrefix(WordFrom(l, i), StringAt(r.line, r.argv[n + 1]))
                 /\ n > MaxArgs - 1 => n >= Len(r.argv)
  <2> DEFINE n == Cardinality(Before(l, i))
  <2>1. i \in 1..Len(l) /\ i \in Nat /\ IsWord(l, i) /\ n \in Nat
    BY <1>2, WordsFinite
  <2>2. n + 1 <= c
    <3>1. i < Len(l) + 1
      BY <1>2, <2>1
    <3> QED BY <1>2, <1>4, <3>1, EarlierFewer
  <2> HIDE DEF c
  <2>3. ASSUME n < Len(r.argv) PROVE r.argv[n + 1] = i /\ i < r.at
    <3>1. n + 1 \in 1..Len(r.argv) /\ (n + 1) - 1 = n
      BY <1>2, <2>1, <2>3
    <3>2. r.argv[n + 1] \in Before(l, r.at) /\ Cardinality(Before(l, r.argv[n + 1])) = n
      BY <1>1, <3>1
    <3>3. r.argv[n + 1] \in WordStarts(l) /\ r.argv[n + 1] < r.at
      BY <3>2 DEF Before
    <3>4. r.argv[n + 1] = i
      BY <1>2, <3>2, <3>3, SameRank
    <3> QED BY <3>3, <3>4
  <2>4. ASSUME n < MaxArgs - 1
        PROVE  n < Len(r.argv) /\ StringAt(r.line, r.argv[n + 1]) = WordFrom(l, i)
    <3>1. n < Len(r.argv)
      BY <1>2, <1>3, <1>6, <2>1, <2>2, <2>4
    <3>2. r.argv[n + 1] = i /\ i < r.at
      BY <2>3, <3>1
    <3> DEFINE w == Next1(l, i, FALSE)
    <3>3. w < r.at \/ r.at = Len(l) + 1
      <4> SUFFICES ASSUME r.at # Len(l) + 1 PROVE w < r.at
        OBVIOUS
      <4>1. n + 2 \in 1..Len(r.argv)
        BY <1>1, <1>2, <2>1, <2>4
      <4> DEFINE j == r.argv[n + 2]
      <4>2. j \in Before(l, r.at) /\ Cardinality(Before(l, j)) = (n + 2) - 1
        BY <1>1, <4>1
      <4>3. j \in WordStarts(l) /\ j < r.at
        BY <4>2 DEF Before
      <4> HIDE DEF j
      <4>4. j \in Nat /\ ~IsWord(l, j - 1)
        BY <1>2, <4>3, WordsFinite
      <4>5. i < j
        <5>1. ~(j < i)
          <6> SUFFICES ASSUME j < i PROVE FALSE
            OBVIOUS
          <6>1. Cardinality(Before(l, j)) + 1 <= n
            BY <1>2, <2>1, <4>3, EarlierFewer
          <6> QED BY <2>1, <4>2, <6>1
        <5>2. j # i
          BY <2>1, <4>2
        <5> QED BY <2>1, <4>4, <5>1, <5>2
      <4>6. w \in i..(Len(l) + 1) /\ \A k \in i..(w - 1) : IsWord(l, k)
        <5>1. i \in 1..(Len(l) + 1)
          BY <1>2, <2>1
        <5> QED BY <1>2, <5>1, GapFound
      <4> HIDE DEF w
      <4>7. w <= j - 1
        <5> SUFFICES ASSUME ~(w <= j - 1) PROVE FALSE
          OBVIOUS
        <5>1. j - 1 \in i..(w - 1)
          BY <1>2, <2>1, <4>4, <4>5, <4>6
        <5> QED BY <4>4, <4>6, <5>1
      <4> QED BY <1>2, <2>1, <4>3, <4>4, <4>6, <4>7
    <3>4. StringAt(Masked(l, r.at), i) = WordFrom(l, i)
      BY <1>1, <2>1, <3>2, <3>3, StringIsWord
    <3> QED BY <1>1, <3>1, <3>2, <3>4
  <2>5. ASSUME n = MaxArgs - 1
        PROVE  n < Len(r.argv) /\ IsPrefix(WordFrom(l, i), StringAt(r.line, r.argv[n + 1]))
    <3>1. n < Len(r.argv)
      BY <1>2, <1>3, <1>6, <2>1, <2>2, <2>5
    <3>2. r.argv[n + 1] = i /\ i < r.at
      BY <2>3, <3>1
    <3>3. IsPrefix(WordFrom(l, i), StringAt(Masked(l, r.at), i))
      BY <1>1, <2>1, <3>2, StringIsWord
    <3> QED BY <1>1, <3>1, <3>2, <3>3
  <2>6. n > MaxArgs - 1 => n >= Len(r.argv)
    BY <1>1, <1>2, <2>1
  <2> HIDE DEF n
  <2> QED BY <2>1, <2>4, <2>5, <2>6 DEF n
<1> QED BY <1>6, <1>7

\* ArgsAreWords about a line, its words and what split left of the line.
Getarg(a, m, i) == IF i >= Len(a) THEN Missing ELSE StringAt(m, a[i + 1])
WordsGiven(l, a, m) ==
  /\ Len(a) = (IF Cardinality(WordStarts(l)) < MaxArgs THEN Cardinality(WordStarts(l)) ELSE MaxArgs)
  /\ \A i \in WordStarts(l) :
       LET n == Cardinality({j \in WordStarts(l) : j < i})
       IN CASE n < MaxArgs - 1 -> Getarg(a, m, n) = WordFrom(l, i)
            [] n = MaxArgs - 1 -> IsPrefix(WordFrom(l, i), Getarg(a, m, n))
            [] OTHER -> Getarg(a, m, n) = Missing

(* The arguments do_getarg gives are the words of the line, once split has  *)
(* been over it.                                                            *)
LEMMA ArgsFromSplit ==
  ASSUME NEW l, IsText(l), NEW r, Rounded(l, r, MaxArgs)
  PROVE  WordsGiven(l, r.argv, r.line)
<1> DEFINE argc == Len(r.argv)
<1>2. MaxArgs \in Nat \ {0} /\ argc \in Nat
  BY ConstantFacts DEF Rounded
<1>3. argc = IF Cardinality(WordStarts(l)) < MaxArgs THEN Cardinality(WordStarts(l)) ELSE MaxArgs
  BY SplitGives
<1>4. ASSUME NEW i \in WordStarts(l)
      PROVE  LET n == Cardinality({j \in WordStarts(l) : j < i})
             IN CASE n < MaxArgs - 1 -> Getarg(r.argv, r.line, n) = WordFrom(l, i)
                  [] n = MaxArgs - 1 -> IsPrefix(WordFrom(l, i), Getarg(r.argv, r.line, n))
                  [] OTHER -> Getarg(r.argv, r.line, n) = Missing
  <2> DEFINE n == Cardinality(Before(l, i))
  <2>1. /\ n \in Nat
        /\ n < MaxArgs - 1 => n < argc /\ StringAt(r.line, r.argv[n + 1]) = WordFrom(l, i)
        /\ n = MaxArgs - 1 => n < argc /\ IsPrefix(WordFrom(l, i), StringAt(r.line, r.argv[n + 1]))
        /\ n > MaxArgs - 1 => n >= argc
    BY SplitGives
  <2>2. n = Cardinality({j \in WordStarts(l) : j < i})
    BY DEF Before
  <2> HIDE DEF n
  <2>3. n < argc => Getarg(r.argv, r.line, n) = StringAt(r.line, r.argv[n + 1])
    BY <1>2, <2>1 DEF Getarg
  <2>4. n >= argc => Getarg(r.argv, r.line, n) = Missing
    BY DEF Getarg
  <2>5. CASE n < MaxArgs - 1
    <3>1. Getarg(r.argv, r.line, n) = WordFrom(l, i)
      BY <2>1, <2>3, <2>5, Zenon
    <3>2. n # MaxArgs - 1
      BY <1>2, <2>1, <2>5
    <3> QED BY <2>2, <2>5, <3>1, <3>2, Zenon
  <2>6. CASE n = MaxArgs - 1
    <3>1. IsPrefix(WordFrom(l, i), Getarg(r.argv, r.line, n))
      BY <2>1, <2>3, <2>6, Zenon
    <3>2. ~(n < MaxArgs - 1)
      BY <1>2, <2>1, <2>6
    <3> QED BY <2>2, <2>6, <3>1, <3>2, Zenon
  <2>7. CASE n > MaxArgs - 1
    <3>1. Getarg(r.argv, r.line, n) = Missing
      BY <2>1, <2>4, <2>7, Zenon
    <3>2. ~(n < MaxArgs - 1) /\ n # MaxArgs - 1
      BY <1>2, <2>1, <2>7
    <3> QED BY <2>2, <3>1, <3>2, Zenon
  <2> QED BY <1>2, <2>1, <2>5, <2>6, <2>7
<1> QED BY <1>3, <1>4, Zenon DEF WordsGiven

(* Only Command goes to exec_file, and until the program's file is open     *)
(* nothing writes the line or its words.                                    *)
LEMMA ArgsNext == ASSUME Types, ArgsAreWords, [Next]_vars PROVE ArgsAreWords'
<1>1. CASE Command
  <2>1. /\ pc' = "open" /\ buf' = buf /\ argv' = Split(buf).argv /\ line' = Split(buf).line
    BY <1>1 DEF Command, reader
  <2>2. IsText(buf)
    BY DEF Types, IsText
  <2>3. WordsGiven(buf, Split(buf).argv, Split(buf).line)
    BY <2>2, SplitFinds, ArgsFromSplit
  <2>4. WordsGiven(buf', argv', line')
    BY <2>1, <2>3, Zenon
  <2> QED BY <2>4 DEF WordsGiven, Getarg, ArgsAreWords, Argc, do_getarg
<1>2. CASE /\ UNCHANGED <<pc, buf, argv, line>>
  BY <1>2 DEF ArgsAreWords, Argc, do_getarg
<1>3. CASE pc' # "open"
  BY <1>3 DEF ArgsAreWords
<1>4. CASE Readline \/ Prompt \/ EchoOrIgnore \/ QuitLine \/ ExecFile
  <2>1. pc' # "open"
    BY <1>4 DEF Readline, ReadChar, ReadEnds, BufferFull, SkipRest, SkipChar, SkipEnds, Prompt,
           CallReadline,
                EchoOrIgnore, QuitLine, ExecFile, Open, MapSegment, MmapFails, Run, Loaded, ProgramReads,
                ProgramLine, Unload
  <2> QED BY <2>1, <1>3
<1>5. CASE UNCHANGED vars
  BY <1>2, <1>5 DEF vars
<1> QED BY <1>1, <1>4, <1>5 DEF Next, MainLoop

(* do_getarg gives a program the words of its command line, whatever the    *)
(* line and however many words it has.                                      *)
THEOREM ArgsFound == Spec => []ArgsAreWords
<1>1. Init => ArgsAreWords
  BY DEF Init, ArgsAreWords
<1> QED BY <1>1, TypesInit, TypesNext, ArgsNext, PTL DEF Spec
=============================================================================
