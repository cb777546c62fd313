------------------------------ MODULE ClientForm ------------------------------
(***************************************************************************)
(* The form of the client dialog: what the user types becomes a message,   *)
(* the server writes a line about it to its log and passes it on, and the  *)
(* callback of a client that gets it prints its text.  The message is a    *)
(* member of the dialog and every click fills the same one anew.  The edit *)
(* controls are Unicode, the message is bytes of the code page: characters *)
(* take one byte or, as Korean ones do, two.  A text is the number of its  *)
(* characters and the bytes the code page has for them.                    *)
(*                                                                         *)
(* A line is put together in arrays of LOG_TEXT_MAX_SIZE bytes.  sprintf_s *)
(* and vsnprintf_s end the program when it does not fit.  On its way to    *)
(* the list box a line is a format itself, so that one with a % is printed *)
(* as anything, or ends the program.                                       *)
(***************************************************************************)
EXTENDS Naturals, Sequences, SequencesExt

CONSTANTS
  LOG_TEXT_MAX_SIZE,  \* 1024 in the code
  MSG_BUFF_SIZE,      \* 4096 in the code
  MsgPrefix,          \* length of "Msg : ", 6
  TimePrefix,         \* length of "[hh:mm:ss:mmm] ", 15
  ServerPrefix,       \* lengths of what the server prints before a text, 29 and more
  Byte                \* what the bytes of a text may be

NUL     == "NUL"
Percent == "%"

\* Any text that is converted fits the buffer, with two bytes for each character
\* and a NUL; no character has a NUL among its bytes.  The server puts more before
\* a text than the callback does.
ASSUME SizeAssumption ==
  /\ LOG_TEXT_MAX_SIZE \in Nat \ {0} /\ MSG_BUFF_SIZE \in Nat
  /\ 2 * (LOG_TEXT_MAX_SIZE - 1) < MSG_BUFF_SIZE
ASSUME PrefixAssumption ==
  /\ MsgPrefix \in Nat /\ TimePrefix \in Nat
  /\ ServerPrefix \subseteq Nat /\ \A p \in ServerPrefix : MsgPrefix <= p
ASSUME ByteAssumption == NUL \notin Byte

\* What the user may type.  A text that is too long is never looked into.
Text == {t \in [length : 0..LOG_TEXT_MAX_SIZE, bytes : SeqOf(Byte, 2 * LOG_TEXT_MAX_SIZE)] :
           IF t.length < LOG_TEXT_MAX_SIZE
             THEN t.length <= Len(t.bytes) /\ Len(t.bytes) <= 2 * t.length
             ELSE t.bytes = <<>>}

Empty == [i \in 1..MSG_BUFF_SIZE |-> NUL]

\* The bytes of a buffer up to the first NUL, as strlen and %s take them.
CString(b) ==
  LET end == CHOOSE i \in 1..MSG_BUFF_SIZE :
               b[i] = NUL /\ \A j \in 1..(i - 1) : b[j] # NUL
  IN  SubSeq(b, 1, end - 1)

VARIABLES
  msg,      \* m_stCmdMsg of the dialog that sends
  wire,     \* the message sent, until the server takes it
  back,     \* the message from the server, until the callback gets it
  log,      \* the line the dialog that receives has shown of it
  aborted,  \* the program that printing a line has ended, or "none"
  meant     \* history: the last text sent that can be converted

vars == <<msg, wire, back, log, aborted, meant>>

\* EMT_BROADCAST, EMT_TARGET and EMT_TASKREG; the combo box can be typed in,
\* and then nothing is selected: -1, which is 65535 in the message.
EMT_TASKREG    == 2
EMT_SERVERDOWN == 4
NoSelection    == 65535
Selections     == {0, 1, EMT_TASKREG, NoSelection}

\* The other fields are numbers of the form; of uMsgSize, the number of characters
\* of the text, nothing is made but a number in the server's log.
ZeroMsg == [uMsg_Type |-> 0, cMsgBuf |-> Empty]
Down    == [ZeroMsg EXCEPT !.uMsg_Type = EMT_SERVERDOWN]

ServerDownLine == <<"Recv Server Down.">>

m_fn_InitUI ==
  /\ msg = ZeroMsg /\ wire = <<>> /\ back = <<>> /\ log = <<>>
  /\ aborted = "none" /\ meant = <<>>

-----------------------------------------------------------------------------
Converts(text) == 0 < text.length /\ text.length < LOG_TEXT_MAX_SIZE

\* Mutant: the length of the text for -1, which leaves out the final NUL.
Written_NoNul(text) == text.bytes

\* What WideCharToMultiByte writes of a text.
Written(text) == Append(text.bytes, NUL)

\* A text that is empty or too long leaves the buffer as it was.
Uni2Multi(text, b) ==
  LET w == Written(text)
  IN  IF Converts(text)
        THEN [i \in 1..MSG_BUFF_SIZE |-> IF i <= Len(w) THEN w[i] ELSE b[i]]
        ELSE b

\* Bound: one message is under way at a time.  A program that has ended, ends
\* what the model follows.
Idle == wire = <<>> /\ back = <<>> /\ aborted = "none"

\* The form holds any text and any kind when the button is clicked.  Nothing looks
\* at what _lib_SendData returns: without a connection the message is lost.
OnBnClickedBnSend ==
  /\ Idle
  /\ \E text \in Text, select \in Selections :
       /\ msg' = [uMsg_Type |-> select, cMsgBuf |-> Uni2Multi(text, msg.cMsgBuf)]
       /\ meant' = IF Converts(text) THEN text.bytes ELSE meant
  /\ wire' \in {<<>>, <<msg'>>} /\ log' = <<>>
  /\ UNCHANGED <<back, aborted>>

-----------------------------------------------------------------------------
Plain(text) == \A i \in DOMAIN text : text[i] # Percent

\* The line of a text has room, with the time before it and a NUL after it; that
\* of a text with a % may turn out longer or shorter.
Fits(prefix, text) == TimePrefix + prefix + Len(text) < LOG_TEXT_MAX_SIZE

Prints(prefix, text) == Fits(prefix, text) \/ ~Plain(text)
Aborts(prefix, text) == ~Fits(prefix, text) \/ ~Plain(text)

\* The server writes its log line and passes on whatever is not for itself.
THREAD_MSGPROC ==
  /\ wire # <<>> /\ wire' = <<>>
  /\ \E prefix \in ServerPrefix :
       LET text == CString(wire[1].cMsgBuf)
       IN  \/ /\ Prints(prefix, text) /\ aborted' = aborted
              /\ back' \in {<<>>} \union (IF wire[1].uMsg_Type # EMT_TASKREG THEN {wire} ELSE {})
           \/ /\ Aborts(prefix, text) /\ aborted' = "server" /\ back' = back
  /\ UNCHANGED <<msg, log, meant>>

ServerDown ==
  /\ Idle /\ back' = <<Down>>
  /\ UNCHANGED <<msg, wire, log, aborted, meant>>

\* What the callback may show of a text after "Msg : ": anything if it has a %.
Lines(text) == IF Plain(text) THEN {text} ELSE SeqOf(Byte, LOG_TEXT_MAX_SIZE - 1)

m_fn_Callback ==
  /\ back # <<>> /\ back' = <<>>
  /\ LET text == CString(back[1].cMsgBuf)
     IN  IF back[1].uMsg_Type = EMT_SERVERDOWN
           THEN log' = <<ServerDownLine>> /\ aborted' = aborted
           ELSE \/ /\ Prints(MsgPrefix, text) /\ aborted' = aborted
                   /\ \E line \in Lines(text) : log' = <<line>>
                \/ Aborts(MsgPrefix, text) /\ aborted' = "dialog" /\ log' = log
  /\ UNCHANGED <<msg, wire, meant>>

Next == OnBnClickedBnSend \/ THREAD_MSGPROC \/ ServerDown \/ m_fn_Callback

Spec == m_fn_InitUI /\ [][Next]_vars

-----------------------------------------------------------------------------
(* Properties. *)

\* When the last text sent that could be converted has no %, it is what is shown,
\* whole and with nothing left over of the longer ones the buffer has held before;
\* and it never ends the program that shows it, whatever its length: the server's
\* line about it is longer and has ended the server before.
TextWhole ==
  Plain(meant) => /\ \A i \in DOMAIN log : log[i] \in {meant, ServerDownLine}
                  /\ aborted # "dialog"
=============================================================================
