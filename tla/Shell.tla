------------------------------- MODULE Shell --------------------------------
(* project1's two main programs: the echo loop of part-1.c, and the shell   *)
(* of part-2.c, which reads a line, splits it into words and runs the       *)
(* program the first one names.  Programs get their input from the same     *)
(* do_readline.  Everything is one thread; what varies is the input, the    *)
(* programs' images and which system calls fail.                            *)
EXTENDS Loader, FiniteSets, SequencesExt

CONSTANTS Characters,  \* of the input, blanks and newlines among them
          Sessions,    \* [part, input, files, faults]: which main, all of standard
                       \* input, for each program's name its [reads, image], and
                       \* whether reads may fail
          BufferSize,  \* BUFFER_SIZE, 200
          GrepSize,    \* sizeof(buf) in ugrep.c, 128
          MaxArgs      \* MAX_ARGS, 10

\* Characters: a newline, a blank (or tab), the end of a string, others.
NL == "\n"
Blank == " "
NUL == "0"
Quit == <<"q">>                 \* the line "quit"

(* The input is text: no byte of it is a NUL.                               *)
ASSUME ShellAssumption ==
  /\ {PageSize, BufferSize, GrepSize, MaxArgs} \subseteq Nat \ {0}
  /\ Pages \in Nat
  /\ NUL \notin Characters
  /\ \A s \in Sessions :
       /\ s.input \in Seq(Characters) /\ s.faults \in BOOLEAN
       /\ \A f \in DOMAIN s.files : s.files[f].image \in Seq(Segments)

VARIABLES
  session,
  pos,            \* characters of standard input read so far
  pc,
  caller,         \* of do_readline: "main" or "program"
  buf,            \* the caller's buffer, without the closing NUL
  argv,           \* argv[0..argc-1]: the first character of each word
  line,           \* main's buffer after split, with a NUL in place of some blanks
  seg,            \* the segment exec_file is about to map
  mem,            \* memory from 0x80000000 on
  elsewhere,      \* has mmap put a segment where it was not asked to?
  start, failed   \* history: pos when do_readline was called, whether read failed

vars == <<session, pos, pc, caller, buf, argv, line, seg, mem, elsewhere, start, failed>>
reader == <<pos, caller, buf, start, failed>>
words == <<argv, line>>
memory == <<seg, mem, elsewhere>>

stdin == session.input
AtEnd == pos = Len(stdin)

Init == /\ session \in Sessions
        /\ pos = 0 /\ pc = "prompt" /\ caller = "main"
        /\ buf = <<>> /\ argv = <<>> /\ line = <<>>
        /\ seg = 1 /\ mem = NoMemory /\ elsewhere = FALSE
        /\ start = 0 /\ failed = "no"
----------------------------------------------------------------------------
(* do_readline(buf, len): characters up to a newline or the end of the      *)
(* buffer; then the rest of the line is skipped.                            *)

Capacity == (IF caller = "main" THEN BufferSize ELSE GrepSize) - 1

CallReadline(who) == /\ caller' = who
                     /\ buf' = <<>>
                     /\ start' = pos /\ failed' = "no"
                     /\ pc' = "read"
                     /\ UNCHANGED pos

ReadChar ==
  /\ pc = "read" /\ Len(buf) < Capacity /\ ~AtEnd
  /\ pos' = pos + 1
  /\ IF stdin[pos + 1] = NL
       THEN pc' = "line" /\ UNCHANGED buf
       ELSE buf' = Append(buf, stdin[pos + 1]) /\ UNCHANGED pc
  /\ UNCHANGED <<session, caller, start, failed, words, memory>>

(* End of input or a failed read.  If no character was read, ch has its     *)
(* value from before the call, which may be a newline.                      *)
ReadEnds ==
  /\ pc = "read" /\ Len(buf) < Capacity
  /\ AtEnd \/ session.faults
  /\ failed' = IF AtEnd THEN failed ELSE "reading"
  /\ \/ pc' = "skip"
     \/ buf = <<>> /\ pc' = "line"
  /\ UNCHANGED <<session, pos, caller, buf, start, words, memory>>

\* Mutant: what does not fit is left for the next call.
LeaveRest == "line"
SkipRest == "skip"

BufferFull ==
  /\ pc = "read" /\ Len(buf) = Capacity
  /\ pc' = SkipRest
  /\ UNCHANGED <<session, reader, words, memory>>

SkipChar ==
  /\ pc = "skip" /\ ~AtEnd
  /\ pos' = pos + 1
  /\ pc' = IF stdin[pos + 1] = NL THEN "line" ELSE "skip"
  /\ UNCHANGED <<session, caller, buf, start, failed, words, memory>>

SkipEnds ==
  /\ pc = "skip"
  /\ AtEnd \/ session.faults
  /\ failed' = IF AtEnd THEN failed ELSE "skipping"
  /\ pc' = "line"
  /\ UNCHANGED <<session, pos, caller, buf, start, words, memory>>
----------------------------------------------------------------------------
(* split(argv, max_argc, line)                                          *)

IsWord(l, i) == i \in 1..Len(l) /\ l[i] \notin {Blank, NUL}
\* The first position from p on, up to the end, where the word test gives b.
Next1(l, p, b) == CHOOSE i \in p..(Len(l) + 1) :
                    /\ i = Len(l) + 1 \/ IsWord(l, i) = b
                    /\ \A j \in p..(i - 1) : IsWord(l, j) # b

Nuls(l, p, q) == [i \in 1..Len(l) |-> IF i \in p..(q - 1) THEN NUL ELSE l[i]]

\* Mutant: one word more than argv has room for.
OneMore == MaxArgs + 1
Room == MaxArgs

\* The line and the words' starts after n rounds of the loop, and where it is.
Split(l) ==
  LET after[n \in 0..Room] ==
        IF n = 0 THEN [line |-> l, argv |-> <<>>, at |-> 1]
        ELSE LET r == after[n - 1]
                 q == Next1(r.line, r.at, TRUE)
                 m == Nuls(r.line, r.at, q)
             IN  IF q > Len(l) THEN [line |-> m, argv |-> r.argv, at |-> q]
                 ELSE [line |-> m, argv |-> Append(r.argv, q), at |-> Next1(m, q, FALSE)]
  IN  after[Room]

\* The string that begins at position i.
StringAt(l, i) ==
  SubSeq(l, i, (CHOOSE e \in i..(Len(l) + 1) :
                 /\ e = Len(l) + 1 \/ l[e] = NUL
                 /\ \A j \in i..(e - 1) : l[j] # NUL) - 1)

Argc == Len(argv)
Missing == <<>>   \* the null pointer
do_getarg(i) == IF i >= Argc THEN Missing ELSE StringAt(line, argv[i + 1])
----------------------------------------------------------------------------
(* main of part-1.c and of part-2.c *)

Prompt ==
  /\ pc = "prompt"
  /\ CallReadline("main")
  /\ UNCHANGED <<session, words, memory>>

MainLine == pc = "line" /\ caller = "main"

\* part-1.c prints the line; part-2.c ignores one without words.
EchoOrIgnore ==
  /\ MainLine /\ buf # Quit
  /\ session.part = 1 \/ \A i \in 1..Len(buf) : buf[i] = Blank
  /\ pc' = "prompt"
  /\ UNCHANGED <<session, reader, words, memory>>

QuitLine ==
  /\ MainLine /\ buf = Quit
  /\ pc' = "exit_0"
  /\ UNCHANGED <<session, reader, words, memory>>

Command ==
  /\ MainLine /\ session.part = 2 /\ buf # Quit
  /\ \E i \in 1..Len(buf) : buf[i] # Blank
  /\ LET r == Split(buf) IN argv' = r.argv /\ line' = r.line
  /\ seg' = 1
  /\ pc' = "open"
  /\ UNCHANGED <<session, reader, mem, elsewhere>>
----------------------------------------------------------------------------
(* exec_file(argv[0]) *)

File == do_getarg(0)
Exists == File \in DOMAIN session.files
Program == session.files[File]

Open ==
  /\ pc = "open"
  /\ \/ pc' = "exit_1"                 \* open fails
     \/ Exists /\ pc' = "map"
  /\ UNCHANGED <<session, reader, words, memory>>

MapSegment ==
  /\ pc = "map" /\ seg <= Len(Program.image)
  /\ LET sg == Program.image[seg] IN
     /\ mem' = Read(Mmap(mem, sg), File, seg, sg)
     /\ elsewhere' = (elsewhere \/ ~HintFree(mem, sg))
  /\ seg' = seg + 1
  /\ UNCHANGED <<session, reader, words, pc>>

MmapFails ==
  /\ pc = "map" /\ seg <= Len(Program.image)
  /\ pc' = "exit_1"
  /\ UNCHANGED <<session, reader, words, memory>>

Loaded == pc = "map" /\ seg > Len(Program.image)
Wild == ~InPlace(mem, File, Program.image)

\* The program runs and writes to its memory.  With a byte missing it may crash.
Run ==
  /\ Loaded
  /\ \/ /\ mem' = [a \in Addresses |-> IF mem[a] = Unmapped THEN Unmapped ELSE Written]
        /\ pc' = IF Program.reads /\ do_getarg(1) # Missing /\ do_getarg(2) = Missing
                   THEN "program" ELSE "return"
     \/ Wild /\ pc' = "crash" /\ UNCHANGED mem
  /\ UNCHANGED <<session, reader, words, seg, elsewhere>>

\* ugrep reads lines until an empty one; hello returns at once.
ProgramReads ==
  /\ pc = "program"
  /\ CallReadline("program")
  /\ UNCHANGED <<session, words, memory>>

ProgramLine ==
  /\ pc = "line" /\ caller = "program"
  /\ pc' = IF buf = <<>> THEN "return" ELSE "program"
  /\ UNCHANGED <<session, reader, words, memory>>

Unload ==
  /\ pc = "return"
  /\ mem' = Munmap(mem, Program.image)
  /\ pc' = "prompt"
  /\ UNCHANGED <<session, reader, words, seg, elsewhere>>

Readline == ReadChar \/ ReadEnds \/ BufferFull \/ SkipChar \/ SkipEnds
MainLoop == Prompt \/ EchoOrIgnore \/ QuitLine \/ Command
ExecFile == Open \/ MapSegment \/ MmapFails \/ Run \/ ProgramReads \/ ProgramLine \/ Unload

Next == Readline \/ MainLoop \/ ExecFile
Spec == Init /\ [][Next]_vars
----------------------------------------------------------------------------
\* The line of standard input that begins after position p, without newline.
LineEnd(p) == CHOOSE e \in p..Len(stdin) :
                /\ e = Len(stdin) \/ stdin[e + 1] = NL
                /\ \A i \in (p + 1)..e : stdin[i] # NL
LineAt(p) == SubSeq(stdin, p + 1, LineEnd(p))
NextLine(p) == IF LineEnd(p) = Len(stdin) THEN Len(stdin) ELSE LineEnd(p) + 1
Fitting(l) == SubSeq(l, 1, IF Len(l) < Capacity THEN Len(l) ELSE Capacity)

(* Each call of do_readline, by the shell or by a program it runs, takes    *)
(* exactly one line and returns as much of it as fits; when a read fails    *)
(* it returns less, but never the tail of a line, unless the failure is in  *)
(* skipping one.                                                            *)
LineAtATime ==
  pc = "line" =>
    CASE failed = "no" -> buf = Fitting(LineAt(start)) /\ pos = NextLine(start)
      [] failed = "reading" -> IsPrefix(buf, LineAt(start)) /\ pos \in {start, NextLine(start)}
      [] failed = "skipping" -> IsPrefix(buf, LineAt(start)) /\ pos <= NextLine(start)

\* The maximal runs of characters that are not blank, in order.
WordStarts(l) == {i \in 1..Len(l) : IsWord(l, i) /\ ~IsWord(l, i - 1)}
WordFrom(l, i) == SubSeq(l, i, Next1(l, i, FALSE) - 1)

(* What do_getarg gives the program: the words of the command line, as many *)
(* as there is room for; the last one, if the array is full, is followed by *)
(* the rest of the line, which split leaves as it is.                       *)
ArgsAreWords ==
  pc = "open" =>
    /\ Argc = (IF Cardinality(WordStarts(buf)) < MaxArgs
                 THEN Cardinality(WordStarts(buf)) ELSE MaxArgs)
    /\ \A i \in WordStarts(buf) :
         LET n == Cardinality({j \in WordStarts(buf) : j < i})
         IN CASE n < MaxArgs - 1 -> do_getarg(n) = WordFrom(buf, i)
              [] n = MaxArgs - 1 -> IsPrefix(WordFrom(buf, i), do_getarg(n))
              [] OTHER -> do_getarg(n) = Missing

Sound == \A f \in DOMAIN session.files : Loadable(session.files[f].image)

(* When a program is entered, each time it is run and whatever ran before,  *)
(* the file's part of each segment is where the ELF header says, the rest   *)
(* of the mapped pages is zero, and no page of an earlier program is left.  *)
(* Only for images whose segments fit the pages part-2.c:161 counts and     *)
(* share none; the code loads others with bytes missing or elsewhere.       *)
ImageLoaded ==
  Sound /\ Loaded => InPlace(mem, File, Program.image) /\ MemoryIs(mem, File, Program.image)

(* "unmaps the allocated memory to prevent leaks": at the prompt no page of *)
(* a program is left, here or elsewhere; for the same images.               *)
NothingMappedAtPrompt == Sound /\ pc = "prompt" => mem = NoMemory /\ ~elsewhere
=============================================================================
