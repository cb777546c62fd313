--------------------------- MODULE ClientFormProofs ---------------------------
(* What is shown of a message is the text that was typed, if it has no %, for a
   text, a buffer and a line of any length. *)
EXTENDS ClientForm, TLAPS

\* The buffer holds the bytes w and ends them with a NUL.
Holds(b, w) ==
  /\ \A i \in 1..Len(w) : b[i] = w[i]
  /\ b[Len(w) + 1] = NUL

\* What can be in a buffer: bytes, or the NUL after a text.
Buffer == [1..MSG_BUFF_SIZE -> Byte \union {NUL}]

\* The texts that are converted, with room for a NUL in the buffer.
Bytes == {w \in Seq(Byte) : Len(w) < MSG_BUFF_SIZE}

\* A buffer that holds the text w.
HeldIn(b, w) == b \in Buffer /\ Holds(b, w)

\* The message of the dialog, and the ones under way unless the server made them,
\* hold the last text that could be converted, whatever they have held before; and
\* the server has passed on only what fits the line of the callback.
Sent == wire # <<>> => wire = <<wire[1]>> /\ HeldIn(wire[1].cMsgBuf, meant)

PassedOn ==
  back # <<>> /\ back[1].uMsg_Type # EMT_SERVERDOWN =>
    /\ HeldIn(back[1].cMsgBuf, meant)
    /\ Plain(meant) => Fits(MsgPrefix, meant)

FormInv ==
  /\ meant \in Bytes /\ HeldIn(msg.cMsgBuf, meant)
  /\ Sent /\ PassedOn /\ TextWhole

-----------------------------------------------------------------------------
\* What a text is, without the sets it is taken from.
LEMMA TextFacts ==
  ASSUME NEW t \in Text, Converts(t)
  PROVE  /\ t.length \in Nat /\ t.length < LOG_TEXT_MAX_SIZE
         /\ t.bytes \in Seq(Byte)
         /\ Len(t.bytes) <= 2 * t.length
<1>1. t \in [length : 0..LOG_TEXT_MAX_SIZE, bytes : SeqOf(Byte, 2 * LOG_TEXT_MAX_SIZE)]
    BY DEF Text
<1>2. PICK n \in 0..(2 * LOG_TEXT_MAX_SIZE) : t.bytes \in [1..n -> Byte]
    BY <1>1 DEF SeqOf
<1>3. n \in Nat
    BY <1>2, SizeAssumption
<1>4. t.bytes \in Seq(Byte)
    BY <1>2, <1>3
<1>. QED
    BY <1>1, <1>4 DEF Text, Converts

\* A text that converts fits the buffer.
LEMMA ConvertedFits ==
  ASSUME NEW t \in Text, Converts(t)
  PROVE  t.bytes \in Bytes
BY TextFacts, SizeAssumption DEF Bytes

\* Up to the first NUL a buffer has just the text it holds: a text has none.
LEMMA HeldIsRead ==
  ASSUME NEW b \in Buffer, NEW w \in Bytes, Holds(b, w)
  PROVE  CString(b) = w
<1>. DEFINE IsEnd(i) == b[i] = NUL /\ \A j \in 1..(i - 1) : b[j] # NUL
            end == CHOOSE i \in 1..MSG_BUFF_SIZE : IsEnd(i)
<1>1. w \in Seq(Byte) /\ Len(w) \in Nat /\ Len(w) + 1 \in 1..MSG_BUFF_SIZE
    BY SizeAssumption DEF Bytes
<1>2. \A i \in 1..Len(w) : b[i] # NUL
    BY <1>1, ByteAssumption DEF Holds
<1>3. IsEnd(Len(w) + 1)
    BY <1>1, <1>2 DEF Holds
<1>4. ASSUME NEW i \in 1..MSG_BUFF_SIZE, IsEnd(i)
      PROVE  i = Len(w) + 1
    BY <1>1, <1>2, <1>4, SizeAssumption DEF Holds
<1>5. end = Len(w) + 1
    BY <1>1, <1>3, <1>4
<1>6. CString(b) = SubSeq(b, 1, end - 1)
    BY DEF CString
<1>. HIDE DEF end
<1>7. SubSeq(b, 1, Len(w)) = [i \in 1..Len(w) |-> b[i]]
    BY <1>1
<1>8. w = [i \in 1..Len(w) |-> w[i]]
    BY <1>1
<1>9. CString(b) = SubSeq(b, 1, Len(w))
    BY <1>1, <1>5, <1>6
<1>. QED
    BY <1>7, <1>8, <1>9 DEF Holds

\* The conversion leaves a buffer that holds the text, or the one it held before.
LEMMA ConversionHolds ==
  ASSUME NEW t \in Text, NEW b \in Buffer, NEW w \in Bytes, Holds(b, w)
  PROVE  /\ Uni2Multi(t, b) \in Buffer
         /\ Holds(Uni2Multi(t, b), IF Converts(t) THEN t.bytes ELSE w)
<1>1. CASE Converts(t)
  <2>. DEFINE v == Append(t.bytes, NUL)
  <2>1. t.bytes \in Seq(Byte) /\ Len(t.bytes) \in Nat /\ Len(t.bytes) < MSG_BUFF_SIZE
      BY <1>1, ConvertedFits DEF Bytes
  <2>2. /\ Len(v) = Len(t.bytes) + 1
        /\ v[Len(t.bytes) + 1] = NUL
        /\ \A i \in 1..Len(t.bytes) : v[i] = t.bytes[i] /\ v[i] \in Byte
      BY <2>1
  <2>3. Uni2Multi(t, b) = [i \in 1..MSG_BUFF_SIZE |-> IF i <= Len(v) THEN v[i] ELSE b[i]]
      BY <1>1 DEF Uni2Multi, Written
  <2>4. ASSUME NEW i \in 1..MSG_BUFF_SIZE
        PROVE  (IF i <= Len(v) THEN v[i] ELSE b[i]) \in Byte \union {NUL}
      BY <2>1, <2>2, SizeAssumption DEF Buffer
  <2>5. Uni2Multi(t, b) \in Buffer
      BY <2>3, <2>4 DEF Buffer
  <2>6. Holds(Uni2Multi(t, b), t.bytes)
      BY <2>1, <2>2, <2>3, SizeAssumption DEF Holds
  <2>. QED
      BY <1>1, <2>5, <2>6
<1>2. CASE ~Converts(t)
    BY <1>2 DEF Uni2Multi
<1>. QED
    BY <1>1, <1>2

-----------------------------------------------------------------------------
LEMMA FormInit == m_fn_InitUI => FormInv
<1>. SUFFICES ASSUME m_fn_InitUI
              PROVE  FormInv
    OBVIOUS
<1>1. Empty \in Buffer /\ Holds(Empty, <<>>) /\ <<>> \in Bytes
    BY SizeAssumption DEF Empty, Buffer, Holds, Bytes
<1>2. TextWhole
    BY DEF m_fn_InitUI, TextWhole
<1>. QED
    BY <1>1, <1>2 DEF m_fn_InitUI, FormInv, HeldIn, Sent, PassedOn, ZeroMsg

LEMMA FormNext == FormInv /\ [Next]_vars => FormInv'
<1>. SUFFICES ASSUME FormInv, [Next]_vars
              PROVE  FormInv'
    OBVIOUS
<1>1. CASE OnBnClickedBnSend
  <2>1. PICK text \in Text, select \in Selections :
          /\ msg' = [uMsg_Type |-> select, cMsgBuf |-> Uni2Multi(text, msg.cMsgBuf)]
          /\ meant' = IF Converts(text) THEN text.bytes ELSE meant
      BY <1>1 DEF OnBnClickedBnSend
  <2>2. meant' \in Bytes /\ HeldIn(msg'.cMsgBuf, meant')
      BY <2>1, ConversionHolds, ConvertedFits DEF FormInv, HeldIn
  <2>3. wire' = <<>> \/ wire' = <<msg'>>
      BY <1>1 DEF OnBnClickedBnSend
  <2>4. Sent'
      BY <2>2, <2>3 DEF Sent
  <2>5. back' = <<>> /\ log' = <<>> /\ aborted' = "none"
      BY <1>1 DEF OnBnClickedBnSend, Idle
  <2>6. PassedOn' /\ TextWhole'
      BY <2>5 DEF PassedOn, TextWhole
  <2>. QED
      BY <2>2, <2>4, <2>6 DEF FormInv
<1>2. CASE THREAD_MSGPROC
  <2>. DEFINE text == CString(wire[1].cMsgBuf)
  <2>1. text = meant /\ meant \in Bytes /\ HeldIn(wire[1].cMsgBuf, meant)
      BY <1>2, HeldIsRead DEF THREAD_MSGPROC, FormInv, Sent, HeldIn
  <2>2. wire = <<wire[1]>> /\ wire' = <<>> /\ UNCHANGED <<msg, log, meant>>
      BY <1>2 DEF THREAD_MSGPROC, FormInv, Sent
  <2>3. PICK prefix \in ServerPrefix :
          \/ Prints(prefix, text) /\ aborted' = aborted /\ (back' = <<>> \/ back' = wire)
          \/ aborted' = "server" /\ back' = back
      BY <1>2 DEF THREAD_MSGPROC
  <2>. HIDE DEF text
  <2>4. Prints(prefix, text) /\ Plain(meant) => Fits(MsgPrefix, meant)
    <3>1. Len(meant) \in Nat /\ prefix \in Nat /\ MsgPrefix <= prefix
        BY <2>1, PrefixAssumption DEF Bytes
    <3>. QED
        BY <2>1, <3>1, SizeAssumption, PrefixAssumption DEF Prints, Fits
  <2>5. PassedOn'
    <3>1. Plain(meant)' = Plain(meant) /\ Fits(MsgPrefix, meant)' = Fits(MsgPrefix, meant)
        BY <2>2 DEF Plain, Fits
    <3>2. CASE back' = back
        BY <2>2, <3>1, <3>2 DEF FormInv, PassedOn
    <3>3. CASE back' = <<>>
        BY <3>3 DEF PassedOn
    <3>4. CASE back' = wire /\ Prints(prefix, text)
        BY <2>1, <2>2, <2>4, <3>1, <3>4 DEF PassedOn
    <3>. QED
        BY <2>3, <3>2, <3>3, <3>4
  <2>6. TextWhole'
      BY <2>2, <2>3 DEF FormInv, TextWhole, Plain
  <2>. QED
      BY <2>2, <2>5, <2>6 DEF FormInv, Sent
<1>3. CASE ServerDown
  <2>1. Down.uMsg_Type = EMT_SERVERDOWN
      BY DEF Down, ZeroMsg
  <2>2. PassedOn'
      BY <1>3, <2>1 DEF ServerDown, PassedOn
  <2>3. UNCHANGED <<msg, wire, log, aborted, meant>>
      BY <1>3 DEF ServerDown
  <2>. QED
      BY <2>2, <2>3 DEF FormInv, Sent, TextWhole, Plain
<1>4. CASE m_fn_Callback
  <2>. DEFINE text == CString(back[1].cMsgBuf)
  <2>1. back # <<>> /\ back' = <<>> /\ UNCHANGED <<msg, wire, meant>>
      BY <1>4 DEF m_fn_Callback
  <2>2. TextWhole'
    <3>1. CASE back[1].uMsg_Type = EMT_SERVERDOWN
      <4>1. log' = <<ServerDownLine>> /\ aborted' = aborted
          BY <1>4, <3>1 DEF m_fn_Callback
      <4>. QED
          BY <2>1, <4>1 DEF FormInv, TextWhole, Plain
    <3>2. CASE back[1].uMsg_Type # EMT_SERVERDOWN
      <4>1. text = meant /\ (Plain(meant) => Fits(MsgPrefix, meant))
          BY <2>1, <3>2, HeldIsRead DEF FormInv, PassedOn, HeldIn
      <4>2. \/ aborted' = aborted /\ \E line \in Lines(text) : log' = <<line>>
            \/ Aborts(MsgPrefix, text)
          BY <1>4, <3>2 DEF m_fn_Callback
      <4>3. Plain(meant) => aborted' = aborted /\ log' = <<meant>>
          BY <4>1, <4>2 DEF Lines, Aborts
      <4>. QED
          BY <2>1, <4>3 DEF FormInv, TextWhole, Plain
    <3>. QED
        BY <3>1, <3>2
  <2>. QED
      BY <2>1, <2>2 DEF FormInv, Sent, PassedOn
<1>5. CASE UNCHANGED vars
    BY <1>5 DEF vars, FormInv, Sent, PassedOn, TextWhole, Plain, Fits
<1>. QED
    BY <1>1, <1>2, <1>3, <1>4, <1>5 DEF Next

\* What the callback shows of a message whose text has no % is that text, whole:
\* the last one sent that could be converted, with nothing of those the buffer has
\* held before; and no such text, however long, ends the program that shows it.
THEOREM TextsWhole == Spec => []TextWhole
<1>1. FormInv => TextWhole
    BY DEF FormInv
<1>. QED
    BY <1>1, FormInit, FormNext, PTL DEF Spec

===============================================================================
