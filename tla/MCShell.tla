------------------------------ MODULE MCShell -------------------------------
(* Model-checking instance of Shell. *)
EXTENDS Shell, TLC

CONSTANTS LineLength,   \* longest first line
          MaxVaddr, MaxMemsz

MCCharacters == {"h", "g", "q", Blank, NL}

Hello(image) == [reads |-> FALSE, image |-> image]
Ugrep(image) == [reads |-> TRUE, image |-> image]
Files(i1, i2) == <<"h">> :> Hello(i1) @@ <<"g">> :> Ugrep(i2)

OneSegment == << [vaddr |-> 0, memsz |-> 1, filesz |-> 1] >>

\* Any first line, then a line for the program it may have started, or a command.
SecondLines == {<<>>, <<NL, "h", NL>>, <<"h", "g", Blank, "h", "h", "h", "h", "h", NL, "q">>,
                Quit \o <<NL>>, <<"g", Blank, "h", NL, "h", NL, NL>>}
LineSessions(part, chars, length, faults) ==
  [part : {part}, faults : {faults},
   input : {l \o <<NL>> \o m : l \in SeqOf(chars, length), m \in SecondLines},
   files : {Files(OneSegment, OneSegment)}]

\* Any image of up to two segments, run twice or alternating with another.
SmallSegments == {sg \in [vaddr : 0..MaxVaddr, memsz : 1..MaxMemsz, filesz : 0..MaxMemsz] :
                    sg.filesz \in {sg.memsz - 1, sg.memsz}}
Images == {<<sg>> : sg \in SmallSegments}
            \cup {<<s1, s2>> : s1 \in {sg \in SmallSegments : sg.vaddr < PageSize}, s2 \in SmallSegments}
ImageSessions == [part : {2}, faults : {FALSE},
                  input : {<<"h", NL, "g", NL, "h", NL>>},
                  files : {Files(i, OneSegment) : i \in Images}]

MCSessions == LineSessions(1, {"h", Blank}, 3, TRUE)
                \cup LineSessions(2, {"h", "g", Blank}, 3, TRUE)
                \cup LineSessions(2, {"h", Blank}, LineLength, FALSE)
                \cup ImageSessions
=============================================================================
