------------------------------- MODULE Stream -------------------------------
(***************************************************************************)
(* StreamIn::ReadLine (src/helpers/Stream.cpp), with which the output of   *)
(* an engine and the commands of an admin are read: a buffer of            *)
(* STREAM_MAXCHARS characters, filled by read() with as many as happen to  *)
(* be there, and cut into lines at CR, LF or both.                         *)
(*                                                                         *)
(* The buffer is kept as memory, because the code relies on the NUL that   *)
(* it puts behind what it has read: nothing else ends its scan.            *)
(***************************************************************************)
EXTENDS Integers, Sequences

CONSTANTS BufferSize,  \* STREAM_MAXCHARS
          Letters,     \* characters that are part of the text
          MaxInput,    \* bound: how many characters are sent
          ReadMayFail  \* read() may return -1 before the end

ASSUME BufferAssumption == BufferSize \in Nat /\ BufferSize > 1
ASSUME MaxInputAssumption == MaxInput \in Nat
ASSUME FailAssumption == ReadMayFail \in BOOLEAN

CR  == "CR"
LF  == "LF"
NUL == "NUL"

NewLines == {CR, LF}
Stops    == {CR, LF, NUL}

ASSUME LettersAssumption == Letters \cap Stops = {}

Character == Letters \cup Stops

Inputs == UNION {[1 .. n -> Character] : n \in 0 .. MaxInput}

VARIABLES
    input,   \* history: everything that is sent
    unread,  \* what of it read() has not delivered
    memory,  \* buffaddr
    rv,      \* what the last read() returned
    buff,    \* the offset of buff in buffaddr
    sc,      \* the text collected in this call
    pc,      \* the caller's code, or where ReadLine is
    lines,   \* history: the lines returned with true
    last,    \* history: the text returned with false
    outside  \* history: an access beyond the buffer

readVars == <<input, unread, memory, rv, buff, sc, pc, lines, last, outside>>

Offset == 0 .. BufferSize - 1

ReadTypeOK == /\ input \in Seq(Character)
              /\ unread \in Seq(Character)
              /\ memory \in [Offset -> Character]
              /\ rv \in -1 .. BufferSize - 1
              /\ buff \in Offset
              /\ sc \in Seq(Letters)
              /\ pc \in {"caller", "scan", "read", "over"}
              /\ lines \in Seq(Seq(Letters))
              /\ last \in Seq(Letters)
              /\ outside \in BOOLEAN

\* The buffer is not initialised.
ReadInit == /\ input \in Inputs
            /\ unread = input
            /\ memory \in {[k \in Offset |-> c] : c \in Character}
            /\ rv = 0
            /\ buff = 0
            /\ sc = <<>>
            /\ pc = "caller"
            /\ lines = <<>>
            /\ last = <<>>
            /\ outside = FALSE

-----------------------------------------------------------------------------
(* The buffer.                                                             *)

\* "I left things behind, last time."
LeftBehind == rv > buff

\* Where the scan from buff stops: whatever stands there.
StopOffsets == {k \in Offset : k >= buff /\ memory[k] \in Stops}
StopAt      == CHOOSE k \in StopOffsets : \A j \in StopOffsets : k <= j

Text(from, to) == [k \in 1 .. to - from |-> memory[from + k - 1]]

\* Line 35: is the character at offset k skipped as the second half of a line
\* end?  Its comparison is with the character before, which line 33 has just
\* overwritten.  Mutant: it is skipped unseen.
SkipsAny(k)    == k < BufferSize
SkipsSecond(k) == k < BufferSize /\ memory[k] \in NewLines

\* read() asks for no more than this.  Mutant: no place for the NUL.
AllOfIt == BufferSize
ReadMax == BufferSize - 1

-----------------------------------------------------------------------------

Return == lines' = Append(lines, sc) /\ pc' = "caller"

\* The next line is wanted.  Mutant: what was left behind is forgotten.
CallAnew ==
    /\ pc = "caller"
    /\ sc' = <<>>
    /\ pc' = "read"
    /\ UNCHANGED <<input, unread, memory, rv, buff, lines, last, outside>>
CallReadLine ==
    /\ pc = "caller"
    /\ sc' = <<>>
    /\ pc' = IF LeftBehind THEN "scan" ELSE "read"
    /\ UNCHANGED <<input, unread, memory, rv, buff, lines, last, outside>>

\* Lines 30 to 37: the line is complete.
EndLine ==
    /\ pc = "scan"
    /\ StopOffsets # {}
    /\ memory[StopAt] \in NewLines
    /\ LET k == StopAt
       IN  /\ memory' = [memory EXCEPT ![k] = NUL]
           /\ buff' = IF SkipsSecond(k + 1) THEN k + 2 ELSE k + 1
           /\ lines' = Append(lines, sc \o Text(buff, k))
    /\ pc' = "caller"
    /\ UNCHANGED <<input, unread, rv, sc, last, outside>>

\* Line 39 and 41: all there is belongs to the line.
KeepText ==
    /\ pc = "scan"
    /\ StopOffsets # {}
    /\ memory[StopAt] = NUL
    /\ sc' = sc \o Text(buff, StopAt)
    /\ buff' = 0
    /\ pc' = "read"
    /\ UNCHANGED <<input, unread, memory, rv, lines, last, outside>>

\* Lines 73, 55, 56 and 57.  The loop ends early when the first character is
\* NUL.
Fill ==
    /\ pc = "read"
    /\ \E n \in 1 .. ReadMax :
          /\ n <= Len(unread)
          /\ memory' = [k \in Offset |-> CASE k < n -> unread[k + 1]
                                           [] k = n -> NUL
                                           [] k > n -> memory[k]]
          /\ unread' = SubSeq(unread, n + 1, Len(unread))
          /\ rv' = n
          /\ outside' = (outside \/ n \notin Offset)
    /\ buff' = 0
    /\ IF memory'[0] = NUL THEN Return ELSE UNCHANGED lines /\ pc' = "scan"
    /\ UNCHANGED <<input, sc, last>>

\* Lines 42 to 53: the other end is closed, or read() fails; the callers stop.
ReadFinalFails ==
    /\ pc = "read"
    /\ \/ unread = <<>> /\ rv' = 0
       \/ ReadMayFail /\ rv' = -1
    /\ buff' = 0
    /\ last' = sc
    /\ pc' = "over"
    /\ UNCHANGED <<input, unread, memory, sc, lines, outside>>

ReadNext == CallReadLine \/ EndLine \/ KeepText \/ Fill \/ ReadFinalFails

ReadSpec == ReadInit /\ [][ReadNext]_readVars

-----------------------------------------------------------------------------
(* Properties.                                                             *)

\* What is in the buffer and has not been looked at.
Rest == IF LeftBehind /\ pc # "read" THEN Text(buff, rv) ELSE <<>>

\* All that the lines to come are made of.
Ahead == (IF pc = "caller" THEN <<>> ELSE sc) \o Rest \o unread

\* The text s between its line ends, blank lines included: f[n] is what the
\* first n characters make, the last line the one that is not complete.
Split(s) ==
    LET f[n \in 0 .. Len(s)] ==
            IF n = 0 THEN <<<<>>>>
            ELSE LET before == f[n - 1]
                     end    == Len(before)
                 IN  IF s[n] \in NewLines THEN Append(before, <<>>)
                     ELSE [before EXCEPT ![end] = Append(@, s[n])]
    IN  f[Len(s)]

Without(c, s) == \A k \in DOMAIN s : s[k] # c

NotBlank(ls) ==
    LET f[n \in 0 .. Len(ls)] ==
            IF n = 0 THEN <<>>
            ELSE IF ls[n] = <<>> THEN f[n - 1] ELSE Append(f[n - 1], ls[n])
    IN  f[Len(ls)]

\* What the first n characters of s make: the lines that they complete, the
\* blank ones left out, and the text that is not followed by a line end.
Words(s) ==
    LET f[n \in 0 .. Len(s)] ==
            IF n = 0 THEN [done |-> <<>>, open |-> <<>>]
            ELSE IF s[n] \notin NewLines
            THEN [done |-> f[n - 1].done, open |-> Append(f[n - 1].open, s[n])]
            ELSE IF f[n - 1].open = <<>> THEN f[n - 1]
            ELSE [done |-> Append(f[n - 1].done, f[n - 1].open), open |-> <<>>]
    IN  f

\* However read() cuts the input, and wherever a line ends in the buffer, the
\* lines that are not blank come out whole, once and in order: those returned
\* are what the input makes up to the end of a line, and all of the input
\* behind that is still ahead.  None is cut, joined with its neighbour,
\* doubled or lost (lines 28 to 57).
WordsKept ==
    Without(NUL, input) =>
        \E n \in 0 .. Len(input) :
            /\ Ahead = SubSeq(input, n + 1, Len(input))
            /\ Words(input)[n] = [done |-> NotBlank(lines), open |-> <<>>]

\* The scan of line 31 and the look ahead of line 35 end at the NUL behind
\* what was read: never beyond the buffer, never in what an earlier read()
\* left there.
StopsInTime ==
    /\ ~outside
    /\ pc = "scan" => StopOffsets # {} /\ StopAt <= rv
    /\ pc = "caller" /\ LeftBehind => memory[rv] = NUL

\* "This will ignore a secondary newline character coming from windows (or a
\* wierd \n\r newline) (But it won't ignore \n\n)" (line 35): text with LF
\* alone comes out line by line, the blank ones too.
KeepsBlankLines ==
    (\A k \in DOMAIN input : input[k] \in Letters \cup {LF}) /\ pc # "over" =>
        lines \o Split(Ahead) = Split(input)
=============================================================================
