----------------------------- MODULE DebugPrint -----------------------------
(***************************************************************************)
(* util_printf.c: log_printf formats its text into one static buffer, for  *)
(* all contexts, and gives the buffer to XX_Debug_Sent.  hex_dump prints a *)
(* line with several calls.                                                *)
(*                                                                         *)
(* A character is the context that printed it; formatting is a store per   *)
(* character (Printf says which).  Texts fit the buffer: the code looks at *)
(* their length only once they are in it.                                  *)
(***************************************************************************)
EXTENDS Integers, Sequences, SequencesExt

CONSTANTS Caller,
          Priority,         \* a context runs while no context of higher priority is in a call
          BuffCnt,          \* DEBUG_BUFF_CNT
          Row,              \* 16: bytes in a row of hex_dump
          Dump              \* the <<length of name, len>> hex_dump is called with

VARIABLES gTempBuff,
          XX_Debug_Sent,    \* whether the callback is set
          todo,             \* of each context: the lengths of the texts its call still has to print
          pc, str,          \* of each context: where it is, and how many characters it has stored
          disturbed,        \* history, of each context: another one ran since its text was begun
          sent              \* what XX_Debug_Sent was given last

vars == <<gTempBuff, XX_Debug_Sent, todo, pc, str, disturbed, sent>>

Nul == "nul"
Nothing == [by |-> Nul, chars |-> <<>>, length |-> 0, wanted |-> 0, whole |-> FALSE]

Init ==
  /\ gTempBuff = [i \in 1 .. BuffCnt |-> Nul] /\ XX_Debug_Sent = FALSE
  /\ todo = [c \in Caller |-> <<>>] /\ pc = [c \in Caller |-> "idle"]
  /\ str = [c \in Caller |-> 0] /\ disturbed = [c \in Caller |-> FALSE]
  /\ sent = Nothing

Begun(c) == pc[c] \in {"test", "send"} \/ str[c] > 0

\* c runs: whoever is in the middle of a call is disturbed.
Runs(c) ==
  /\ \A o \in Caller : pc[o] # "idle" => Priority[o] <= Priority[c]
  /\ disturbed' = [o \in Caller |->
       IF o = c THEN disturbed[c] /\ Begun(c) ELSE pc[o] # "idle"]

\* strlen(gTempBuff); with no end in sight it runs on beyond the buffer.
StrLen ==
  LET ends == {i \in 1 .. BuffCnt : gTempBuff[i] = Nul}
  IN IF ends = {} THEN BuffCnt ELSE (CHOOSE i \in ends : \A j \in ends : i <= j) - 1

log_printf_int(c) ==
  /\ ~XX_Debug_Sent /\ pc[c] = "idle" /\ Runs(c)
  /\ XX_Debug_Sent' = TRUE
  /\ UNCHANGED <<gTempBuff, todo, pc, str, sent>>

\* The texts of hex_dump: "name:", a line feed before each row, "xx " per byte, a line feed.
HexDump(name, len) ==
  <<name + 1>> \o FlattenSeq([i \in 1 .. len |-> IF (i - 1) % Row = 0 THEN <<1, 3>> ELSE <<3>>])
    \o <<1>>

\* Each text, with its end, has a place in the buffer; no context is an empty character.
PrintAssumption ==
  /\ BuffCnt \in Nat
  /\ Nul \notin Caller
  /\ \A d \in Dump : HexDump(d[1], d[2]) \in Seq(0 .. BuffCnt - 1) \ {<<>>}

Call(c, texts) ==
  /\ pc[c] = "idle" /\ Runs(c)
  /\ todo' = [todo EXCEPT ![c] = texts] /\ pc' = [pc EXCEPT ![c] = "format"]
  /\ UNCHANGED <<gTempBuff, XX_Debug_Sent, str, sent>>

(* log_printf *)

\* Mutant: the end of the string is not stored.
EndOfTextNone(n) == n

\* The place of the end of a string of n characters.
EndOfText(n) == n + 1

\* Debug_Vsprintf: a character, or the end of the string.
Format(c) ==
  /\ pc[c] = "format" /\ Runs(c)
  /\ \/ /\ str[c] < todo[c][1]
        /\ gTempBuff' = [gTempBuff EXCEPT ![str[c] + 1] = c]
        /\ str' = [str EXCEPT ![c] = @ + 1]
        /\ UNCHANGED pc
     \/ /\ str[c] = todo[c][1]
        /\ gTempBuff' = [gTempBuff EXCEPT ![EndOfText(str[c])] = Nul]
        /\ pc' = [pc EXCEPT ![c] = "test"]
        /\ UNCHANGED str
  /\ UNCHANGED <<XX_Debug_Sent, todo, sent>>

SentIf == StrLen < BuffCnt - 1 /\ XX_Debug_Sent

\* log_printf returns; hex_dump goes on with its next text.
Returns(c) ==
  /\ todo' = [todo EXCEPT ![c] = Tail(@)]
  /\ pc' = [pc EXCEPT ![c] = IF Len(todo[c]) = 1 THEN "idle" ELSE "format"]
  /\ str' = [str EXCEPT ![c] = 0]

Test(c) ==
  /\ pc[c] = "test" /\ Runs(c)
  /\ \/ SentIf /\ pc' = [pc EXCEPT ![c] = "send"] /\ UNCHANGED <<todo, str>>
     \/ ~SentIf /\ Returns(c)
  /\ UNCHANGED <<gTempBuff, XX_Debug_Sent, sent>>

\* The length is computed anew for the callback.
Send(c) ==
  /\ pc[c] = "send" /\ Runs(c)
  /\ sent' = [by |-> c, chars |-> SubSeq(gTempBuff, 1, StrLen), length |-> StrLen,
              wanted |-> todo[c][1], whole |-> ~disturbed[c]]
  /\ Returns(c)
  /\ UNCHANGED <<gTempBuff, XX_Debug_Sent>>

Next ==
  \E c \in Caller :
    \/ log_printf_int(c)
    \/ \E n \in 0 .. BuffCnt - 1 : Call(c, <<n>>)
    \/ \E d \in Dump : Call(c, HexDump(d[1], d[2]))
    \/ Format(c) \/ Test(c) \/ Send(c)

Spec == Init /\ [][Next]_vars

-----------------------------------------------------------------------------
(* A line that no other context disturbed is sent as it was printed, and is  *)
(* shorter than the buffer by two characters (323): whatever was left in the *)
(* buffer, by itself or by others.  A disturbed one may be cut, mixed, or    *)
(* longer than the test allowed.                                             *)
UndisturbedLineIsWhole ==
  sent.whole =>
    /\ sent.chars = [i \in 1 .. sent.wanted |-> sent.by]
    /\ sent.length < BuffCnt - 1
=============================================================================
