----------------------------- MODULE AtmProofs -----------------------------
(***************************************************************************)
(* What holds of the cash machine of 11.1 for any PIN, any keys and queues *)
(* of any length: the PIN never grows past pin_length, and only the PIN of *)
(* the session at hand is ever accepted.                                   *)
(***************************************************************************)
EXTENDS Atm, Integers, SequenceTheorems, TLAPS

-----------------------------------------------------------------------------
(* Queues: what a receive and a send do to the messages in them. *)
LEMMA TailElements ==
  ASSUME NEW S, NEW s \in Seq(S), s # <<>>
  PROVE  /\ Tail(s) \in Seq(S) /\ Head(s) = s[1] /\ Head(s) \in S /\ 1 \in DOMAIN s
         /\ \A i \in DOMAIN Tail(s) : /\ i + 1 \in DOMAIN s /\ i + 1 # 1 /\ i \in Nat
                                      /\ Tail(s)[i] = s[i + 1]
  OBVIOUS

LEMMA ConcatElements ==
  ASSUME NEW S, NEW s \in Seq(S), NEW r \in Seq(S)
  PROVE  /\ s \o r \in Seq(S) /\ DOMAIN s = 1..Len(s) /\ Len(s) \in Nat
         /\ \A i \in DOMAIN s : i \in DOMAIN (s \o r) /\ (s \o r)[i] = s[i]
         /\ \A i \in DOMAIN r : i + Len(s) \in DOMAIN (s \o r) /\ (s \o r)[i + Len(s)] = r[i]
         /\ \A i \in DOMAIN (s \o r) :
              \/ i \in DOMAIN s
              \/ i - Len(s) \in DOMAIN r /\ (s \o r)[i] = r[i - Len(s)] /\ i \in Int
  OBVIOUS

(* Nothing of these types is added to a queue. *)
Fewer(s, r, types) ==
  /\ Free(s, types) => Free(r, types)
  /\ Single(s, types) => Single(r, types)
  /\ \A i \in DOMAIN r : r[i].type \in types => \E j \in DOMAIN s : r[i] = s[j]

LEMMA FewerSame ==
  ASSUME NEW s, NEW types
  PROVE  Fewer(s, s, types)
BY DEF Fewer

LEMMA FewerTail ==
  ASSUME NEW S, NEW s \in Seq(S), s # <<>>, NEW types
  PROVE  /\ Fewer(s, Tail(s), types)
         /\ Single(s, types) /\ Head(s).type \in types => Free(Tail(s), types)
<1>1. PICK r : r = Tail(s)
  OBVIOUS
<1>2. /\ Head(s) = s[1] /\ 1 \in DOMAIN s
      /\ \A i \in DOMAIN r : i + 1 \in DOMAIN s /\ i + 1 # 1 /\ i \in Nat /\ r[i] = s[i + 1]
  BY <1>1, TailElements
<1>3. Free(s, types) => Free(r, types)
  BY <1>2 DEF Free
<1>4. ASSUME Single(s, types) PROVE Single(r, types)
  <2> SUFFICES ASSUME NEW i \in DOMAIN r, NEW j \in DOMAIN r, r[i].type \in types, r[j].type \in types
               PROVE  i = j
    BY DEF Single
  <2>1. i + 1 = j + 1
    BY <1>2, <1>4 DEF Single
  <2> QED BY <1>2, <2>1
<1>5. \A i \in DOMAIN r : r[i].type \in types => \E j \in DOMAIN s : r[i] = s[j]
  BY <1>2
<1>6. ASSUME Single(s, types), s[1].type \in types PROVE Free(r, types)
  BY <1>2, <1>6 DEF Single, Free
<1> QED BY <1>1, <1>2, <1>3, <1>4, <1>5, <1>6 DEF Fewer

LEMMA FewerConcat ==
  ASSUME NEW S, NEW s \in Seq(S), NEW r \in Seq(S), NEW types, Free(r, types)
  PROVE  Fewer(s, s \o r, types)
<1>1. PICK c, n : c = s \o r /\ n = Len(s)
  OBVIOUS
<1>2. \A i \in DOMAIN c : \/ i \in DOMAIN s /\ c[i] = s[i]
                          \/ i - n \in DOMAIN r /\ c[i] = r[i - n]
  BY <1>1, ConcatElements
<1>3. \A i \in DOMAIN c : c[i].type \in types => i \in DOMAIN s /\ c[i] = s[i]
  BY <1>2 DEF Free
<1>4. Fewer(s, c, types)
  BY <1>3 DEF Fewer, Free, Single
<1> QED BY <1>1, <1>4

LEMMA FewerTwice ==
  ASSUME NEW s, NEW r, NEW q, NEW types, Fewer(s, r, types), Fewer(r, q, types)
  PROVE  Fewer(s, q, types)
BY DEF Fewer

(* One message of these types arrives where there was none. *)
LEMMA OneMore ==
  ASSUME NEW S, NEW s \in Seq(S), NEW m \in S, NEW types, Free(s, types)
  PROVE  /\ Single(s \o <<m>>, types)
         /\ \A i \in DOMAIN (s \o <<m>>) : (s \o <<m>>)[i].type \in types => (s \o <<m>>)[i] = m
<1>1. PICK c, n, r : c = s \o <<m>> /\ n = Len(s) /\ r = <<m>>
  OBVIOUS
<1>2. DOMAIN r = {1} /\ r[1] = m /\ r \in Seq(S) /\ n \in Nat
  BY <1>1
<1>3. \A i \in DOMAIN c : \/ i \in DOMAIN s /\ c[i] = s[i]
                          \/ i - n \in DOMAIN r /\ c[i] = r[i - n] /\ i \in Int
  BY <1>1, <1>2, ConcatElements
<1>4. \A i \in DOMAIN c : c[i].type \in types => i - n = 1 /\ i \in Int /\ c[i] = m
  BY <1>2, <1>3 DEF Free
<1>5. ASSUME NEW i \in DOMAIN c, NEW j \in DOMAIN c, c[i].type \in types, c[j].type \in types PROVE i = j
  <2>1. i - n = 1 /\ j - n = 1 /\ i \in Int /\ j \in Int
    BY <1>4, <1>5
  <2> QED BY <1>2, <2>1
<1>6. Single(c, types)
  BY <1>5 DEF Single
<1> QED BY <1>1, <1>4, <1>6

(* Sending one message of another kind, or none. *)
LEMMA FreeShort ==
  ASSUME NEW m, NEW types, m.type \notin types
  PROVE  Free(<<m>>, types) /\ Free(<<>>, types)
<1>1. PICK r : r = <<m>>
  OBVIOUS
<1>2. DOMAIN r = {1} /\ r[1] = m
  BY <1>1
<1>3. Free(r, types)
  BY <1>2 DEF Free
<1>4. Free(<<>>, types)
  BY DEF Free
<1> QED BY <1>1, <1>3, <1>4

-----------------------------------------------------------------------------
Queues == [Machine -> Seq(Message)]

LEMMA SendOp ==
  ASSUME NEW q \in Queues, NEW m \in Machine, NEW msgs \in Seq(Message)
  PROVE  /\ Send(q, m, msgs) \in Queues
         /\ Send(q, m, msgs)[m] = q[m] \o msgs
         /\ \A n \in Machine \ {m} : Send(q, m, msgs)[n] = q[n]
<1>1. q[m] \o msgs \in Seq(Message)
  BY ConcatElements DEF Queues
<1> QED BY <1>1 DEF Send, Queues

LEMMA PopOp ==
  ASSUME NEW q \in Queues, NEW m \in Machine, q[m] # <<>>
  PROVE  /\ Pop(q, m) \in Queues
         /\ Pop(q, m)[m] = Tail(q[m])
         /\ \A n \in Machine \ {m} : Pop(q, m)[n] = q[n]
         /\ Head(q[m]) \in Message
<1>1. q[m] \in Seq(Message)
  BY DEF Queues
<1>2. Tail(q[m]) \in Seq(Message) /\ Head(q[m]) \in Message
  BY <1>1, TailElements
<1> QED BY <1>2 DEF Pop, Queues

Machines == /\ "bank" \in Machine /\ "atm" \in Machine /\ "im" \in Machine
            /\ \A m \in Machine : m = "bank" \/ m = "atm" \/ m = "im"

LEMMA MachineNames == Machines
BY DEF Machine, Machines

(* A receive and a send leave no more messages of a kind than there were,  *)
(* when none of the kind is sent.                                          *)
LEMMA FewerPop ==
  ASSUME NEW q \in Queues, NEW m \in Machine, NEW n \in Machine, q[m] # <<>>, NEW types
  PROVE  Fewer(q[n], Pop(q, m)[n], types)
<1>1. q[n] \in Seq(Message) /\ q[m] \in Seq(Message)
  BY DEF Queues
<1>2. CASE n = m
  <2>1. Fewer(q[m], Tail(q[m]), types)
    BY <1>1, FewerTail
  <2> QED BY <1>2, <2>1, PopOp
<1>3. CASE n # m
  <2>1. Pop(q, m)[n] = q[n]
    BY <1>3, PopOp
  <2> QED BY <2>1, FewerSame
<1> QED BY <1>2, <1>3

LEMMA FewerSend ==
  ASSUME NEW q \in Queues, NEW m \in Machine, NEW n \in Machine, NEW msgs \in Seq(Message),
         NEW types, Free(msgs, types) \/ n # m
  PROVE  Fewer(q[n], Send(q, m, msgs)[n], types)
<1>1. q[n] \in Seq(Message) /\ q[m] \in Seq(Message)
  BY DEF Queues
<1>2. CASE n = m
  <2>1. Fewer(q[m], q[m] \o msgs, types)
    BY <1>1, <1>2, FewerConcat
  <2> QED BY <1>2, <2>1, SendOp
<1>3. CASE n # m
  <2>1. Send(q, m, msgs)[n] = q[n]
    BY <1>3, SendOp
  <2> QED BY <2>1, FewerSame
<1> QED BY <1>2, <1>3

(* Names of the messages without contents. *)
PlainName ==
  PlainKey \cup
  {"close_queue", "clear_last_pressed", "pin_verified", "pin_incorrect", "balance",
   "withdraw_ok", "withdraw_denied", "withdraw", "get_balance", "cancel_withdrawal",
   "withdrawal_processed", "display_enter_card", "display_enter_pin",
   "display_pin_incorrect_message", "display_withdrawal_options", "display_balance",
   "display_insufficient_funds", "display_withdrawal_cancelled", "issue_money",
   "eject_card"}

LEMMA PlainMessages ==
  ASSUME NEW x \in PlainName
  PROVE  Msg(x) \in Message /\ Msg(x).type = x /\ <<Msg(x)>> \in Seq(Message)
<1>1. Msg(x) \in Message
  BY DEF PlainName, Message, Key
<1>2. Msg(x).type = x
  BY DEF Msg
<1> QED BY <1>1, <1>2

LEMMA MessageContents ==
  ASSUME NEW m \in Message
  PROVE  /\ m.type = "verify_pin" => m.pin \in Pin
         /\ m.type = "digit_pressed" => m.digit \in Digit
<1>1. CASE m \in Key
  BY <1>1 DEF Key, Msg, PlainKey
<1>2. CASE \E p \in Pin : m = [type |-> "verify_pin", pin |-> p]
  BY <1>2
<1>3. CASE \E x \in PlainName : m = Msg(x)
  BY <1>3 DEF Msg, PlainName, PlainKey
<1> QED BY <1>1, <1>2, <1>3 DEF Message, PlainName

LEMMA Keys ==
  ASSUME NEW k \in Key
  PROVE  /\ k \in Message /\ <<k>> \in Seq(Message)
         /\ k.type \notin PinAnswer /\ k.type \notin PinRequest
<1>1. k \in Message
  BY DEF Message
<1>2. k.type \notin PinAnswer /\ k.type \notin PinRequest
  BY DEF Key, Msg, PlainKey, PinAnswer, PinRequest
<1> QED BY <1>1, <1>2

(* A PIN is a sequence of at most pin_length digits. *)
LEMMA Pins ==
  ASSUME NEW p
  PROVE  p \in Pin <=> p \in Seq(Digit) /\ Len(p) \in 0..PinLength
<1>1. ASSUME p \in Pin PROVE p \in Seq(Digit) /\ Len(p) \in 0..PinLength
  <2>1. PICK n \in 0..PinLength : p \in [1..n -> Digit]
    BY <1>1 DEF Pin
  <2>2. n \in Nat
    BY AtmAssumption
  <2>3. p \in Seq(Digit) /\ Len(p) = n
    BY <2>1, <2>2
  <2> QED BY <2>1, <2>3
<1>2. ASSUME p \in Seq(Digit), Len(p) \in 0..PinLength PROVE p \in Pin
  <2>1. p \in [1..Len(p) -> Digit]
    BY <1>2
  <2> QED BY <1>2, <2>1 DEF Pin
<1> QED BY <1>1, <1>2

-----------------------------------------------------------------------------
(* What the handlers of the state functions send is neither a request nor  *)
(* an answer about a PIN.                                                  *)
QuietName == PlainName \ (PinRequest \cup PinAnswer)

LEMMA QuietMessages ==
  ASSUME NEW types \in Seq(QuietName), NEW msgs, msgs = [i \in DOMAIN types |-> Msg(types[i])]
  PROVE  msgs \in Seq(Message) /\ Free(msgs, PinRequest) /\ Free(msgs, PinAnswer)
<1>1. PICK n \in Nat : types \in [1..n -> QuietName]
  OBVIOUS
<1>2. ASSUME NEW i \in DOMAIN types
      PROVE  /\ Msg(types[i]) \in Message
             /\ Msg(types[i]).type \notin PinRequest /\ Msg(types[i]).type \notin PinAnswer
  <2>1. types[i] \in QuietName
    BY <1>1
  <2> QED BY <2>1, PlainMessages DEF QuietName
<1>3. msgs \in [1..n -> Message]
  BY <1>1, <1>2
<1> QED BY <1>2, <1>3 DEF Free

(* A list of names as the handlers of an atm state give it. *)
LEMMA ShortLists ==
  ASSUME NEW x \in QuietName
  PROVE  <<>> \in Seq(QuietName) /\ <<x>> \in Seq(QuietName)
OBVIOUS

WellHandled(s, h) ==
  /\ h.next \in State /\ h.bank \in Seq(QuietName) /\ h.im \in Seq(QuietName)
  /\ h.next # "verifying_pin"
  /\ h.next = "getting_pin" => h.type = "card_inserted"
  /\ h.type = "card_inserted" => h.next = "getting_pin" /\ s # "verifying_pin"
  /\ h.next \in Accepted => s \in Accepted \/ (s = "verifying_pin" /\ h.type = "pin_verified")
  /\ s = "verifying_pin" => h.type \in PinAnswer \cup {"cancel_pressed"}

LEMMA QuietNames ==
  /\ "display_enter_pin" \in QuietName /\ "display_pin_incorrect_message" \in QuietName
  /\ "withdraw" \in QuietName /\ "get_balance" \in QuietName /\ "display_balance" \in QuietName
  /\ "withdrawal_processed" \in QuietName /\ "issue_money" \in QuietName
  /\ "display_insufficient_funds" \in QuietName /\ "cancel_withdrawal" \in QuietName
  /\ "display_withdrawal_cancelled" \in QuietName
BY DEF QuietName, PlainName, PlainKey, PinRequest, PinAnswer

LEMMA HandlersAreWell ==
  ASSUME NEW s \in State, NEW h \in Handlers[s]
  PROVE  WellHandled(s, h)
<1>1. CASE s = "waiting_for_card"
  <2>1. h = On("card_inserted", "getting_pin", <<>>, <<"display_enter_pin">>)
    BY <1>1 DEF Handlers, WaitingForCard
  <2> QED BY <1>1, <2>1, QuietNames, ShortLists DEF On, WellHandled, State, Accepted
<1>2. CASE s = "getting_pin"
  <2>1. h = On("cancel_pressed", "done_processing", <<>>, <<>>)
    BY <1>2 DEF Handlers, GettingPin
  <2> QED BY <1>2, <2>1, QuietNames, ShortLists DEF On, WellHandled, State, Accepted
<1>3. CASE s = "verifying_pin"
  <2>1. \/ h = On("pin_verified", "wait_for_action", <<>>, <<>>)
        \/ h = On("pin_incorrect", "done_processing", <<>>, <<"display_pin_incorrect_message">>)
        \/ h = On("cancel_pressed", "done_processing", <<>>, <<>>)
    BY <1>3 DEF Handlers, VerifyingPin
  <2>2. CASE h = On("pin_verified", "wait_for_action", <<>>, <<>>)
    BY <1>3, <2>2, QuietNames, ShortLists DEF On, WellHandled, State, Accepted, PinAnswer
  <2>3. CASE h = On("pin_incorrect", "done_processing", <<>>,
                    <<"display_pin_incorrect_message">>)
    BY <1>3, <2>3, QuietNames, ShortLists DEF On, WellHandled, State, Accepted, PinAnswer
  <2>4. CASE h = On("cancel_pressed", "done_processing", <<>>, <<>>)
    BY <1>3, <2>4, QuietNames, ShortLists DEF On, WellHandled, State, Accepted, PinAnswer
  <2> QED BY <2>1, <2>2, <2>3, <2>4
<1>4. CASE s = "wait_for_action"
  <2>1. \/ h = On("withdraw_pressed", "process_withdrawal", <<"withdraw">>, <<>>)
        \/ h = On("balance_pressed", "process_balance", <<"get_balance">>, <<>>)
        \/ h = On("cancel_pressed", "done_processing", <<>>, <<>>)
    BY <1>4 DEF Handlers, WaitForAction
  <2>2. CASE h = On("withdraw_pressed", "process_withdrawal", <<"withdraw">>, <<>>)
    BY <1>4, <2>2, QuietNames, ShortLists DEF On, WellHandled, State, Accepted
  <2>3. CASE h = On("balance_pressed", "process_balance", <<"get_balance">>, <<>>)
    BY <1>4, <2>3, QuietNames, ShortLists DEF On, WellHandled, State, Accepted
  <2>4. CASE h = On("cancel_pressed", "done_processing", <<>>, <<>>)
    BY <1>4, <2>4, QuietNames, ShortLists DEF On, WellHandled, State, Accepted
  <2> QED BY <2>1, <2>2, <2>3, <2>4
<1>5. CASE s = "process_balance"
  <2>1. \/ h = On("balance", "wait_for_action", <<>>, <<"display_balance">>)
        \/ h = On("cancel_pressed", "done_processing", <<>>, <<>>)
    BY <1>5 DEF Handlers, ProcessBalance
  <2>2. CASE h = On("balance", "wait_for_action", <<>>, <<"display_balance">>)
    BY <1>5, <2>2, QuietNames, ShortLists DEF On, WellHandled, State, Accepted
  <2>3. CASE h = On("cancel_pressed", "done_processing", <<>>, <<>>)
    BY <1>5, <2>3, QuietNames, ShortLists DEF On, WellHandled, State, Accepted
  <2> QED BY <2>1, <2>2, <2>3
<1>6. CASE s = "process_withdrawal"
  <2>1. \/ h = On("withdraw_ok", "done_processing", <<"withdrawal_processed">>,
                  <<"issue_money">>)
        \/ h = On("withdraw_denied", "done_processing", <<>>, <<"display_insufficient_funds">>)
        \/ h = On("cancel_pressed", "done_processing", <<"cancel_withdrawal">>,
                  <<"display_withdrawal_cancelled">>)
    BY <1>6 DEF Handlers, ProcessWithdrawal
  <2>2. CASE h = On("withdraw_ok", "done_processing", <<"withdrawal_processed">>,
                    <<"issue_money">>)
    BY <1>6, <2>2, QuietNames, ShortLists DEF On, WellHandled, State, Accepted
  <2>3. CASE h = On("withdraw_denied", "done_processing", <<>>, <<"display_insufficient_funds">>)
    BY <1>6, <2>3, QuietNames, ShortLists DEF On, WellHandled, State, Accepted
  <2>4. CASE h = On("cancel_pressed", "done_processing", <<"cancel_withdrawal">>,
                    <<"display_withdrawal_cancelled">>)
    BY <1>6, <2>4, QuietNames, ShortLists DEF On, WellHandled, State, Accepted
  <2> QED BY <2>1, <2>2, <2>3, <2>4
<1>7. CASE s = "done_processing"
  BY <1>7 DEF Handlers
<1> QED BY <1>1, <1>2, <1>3, <1>4, <1>5, <1>6, <1>7 DEF State

LEMMA Prompts ==
  ASSUME NEW s \in State
  PROVE  Prompt(s) \in Seq(Message)
<1>1. <<Msg("display_enter_card")>> \in Seq(Message)
      /\ <<Msg("display_withdrawal_options")>> \in Seq(Message)
  BY PlainMessages DEF PlainName
<1> QED BY <1>1 DEF Prompt, State

-----------------------------------------------------------------------------
(* The invariant is kept by every step that sends nothing about a PIN and  *)
(* leaves the PIN and the states around it alone.                          *)
LessInFlight ==
  /\ Fewer(queue["bank"], queue'["bank"], PinRequest)
  /\ Fewer(queue["atm"], queue'["atm"], PinAnswer)

Quiet ==
  /\ LessInFlight
  /\ UNCHANGED <<pin, abandoned>>
  /\ \/ state' = state
     \/ state # "verifying_pin" /\ state' \notin Accepted \cup {"getting_pin", "verifying_pin"}

LEMMA RequestsStayWhole ==
  ASSUME PinNeverOverruns, Fewer(queue["bank"], queue'["bank"], PinRequest),
         state' = "getting_pin" => Len(pin') < PinLength
  PROVE  PinNeverOverruns'
<1>1. ASSUME NEW i \in DOMAIN queue'["bank"], queue'["bank"][i].type = "verify_pin"
      PROVE  Len(queue'["bank"][i].pin) = PinLength
  <2>1. PICK j \in DOMAIN queue["bank"] : queue'["bank"][i] = queue["bank"][j]
    BY <1>1 DEF Fewer, PinRequest
  <2> QED BY <1>1, <2>1 DEF PinNeverOverruns
<1> QED BY <1>1 DEF PinNeverOverruns

LEMMA NothingInFlight ==
  ASSUME Free(queue'["bank"], PinRequest), Free(queue'["atm"], PinAnswer)
  PROVE  PinInFlight'
BY DEF Free, Single, PinInFlight, PinRequest, PinAnswer

LEMMA QuietStep == IInv /\ TypeOK' /\ Quiet => IInv'
<1> SUFFICES ASSUME IInv, TypeOK', Quiet PROVE IInv'
  OBVIOUS
<1>1. LessInFlight /\ pin' = pin /\ abandoned' = abandoned
  BY DEF Quiet
<1>2. PinNeverOverruns'
  <2>1. state' = "getting_pin" => Len(pin') < PinLength
    BY DEF Quiet, IInv, PinNeverOverruns
  <2> QED BY <1>1, <2>1, RequestsStayWhole DEF IInv, LessInFlight
<1>3. AcceptedPinCorrect'
  BY DEF Quiet, IInv, AcceptedPinCorrect
<1>4. ASSUME ~abandoned PROVE PinInFlight'
  <2>1. Free(queue["bank"], PinRequest) \/ Free(queue["atm"], PinAnswer)
    BY <1>4 DEF IInv, PinInFlight
  <2>2. Free(queue'["bank"], PinRequest) \/ Free(queue'["atm"], PinAnswer)
    BY <1>1, <2>1 DEF LessInFlight, Fewer
  <2>3. Single(queue'["bank"], PinRequest) /\ Single(queue'["atm"], PinAnswer)
    BY <1>1, <1>4 DEF IInv, PinInFlight, LessInFlight, Fewer
  <2>4. ASSUME state' # "verifying_pin"
        PROVE  Free(queue'["bank"], PinRequest) /\ Free(queue'["atm"], PinAnswer)
    BY <1>1, <1>4, <2>4 DEF IInv, PinInFlight, LessInFlight, Fewer, Quiet
  <2>5. ASSUME NEW i \in DOMAIN queue'["bank"], queue'["bank"][i].type = "verify_pin"
        PROVE  queue'["bank"][i].pin = pin'
    <3>1. PICK j \in DOMAIN queue["bank"] : queue'["bank"][i] = queue["bank"][j]
      BY <1>1, <2>5 DEF LessInFlight, Fewer, PinRequest
    <3> QED BY <1>1, <1>4, <2>5, <3>1 DEF IInv, PinInFlight
  <2>6. ASSUME NEW i \in DOMAIN queue'["atm"], queue'["atm"][i].type = "pin_verified"
        PROVE  pin' = CorrectPin
    <3>1. PICK j \in DOMAIN queue["atm"] : queue'["atm"][i] = queue["atm"][j]
      BY <1>1, <2>6 DEF LessInFlight, Fewer, PinAnswer
    <3> QED BY <1>1, <1>4, <2>6, <3>1 DEF IInv, PinInFlight
  <2> QED BY <2>2, <2>3, <2>4, <2>5, <2>6 DEF PinInFlight
<1>5. PinInFlight'
  BY <1>1, <1>4 DEF PinInFlight
<1> QED BY <1>2, <1>3, <1>5 DEF IInv

LEMMA TypeOfQueues ==
  ASSUME TypeOK
  PROVE  /\ queue \in Queues /\ queue["bank"] \in Seq(Message) /\ queue["atm"] \in Seq(Message)
         /\ queue["im"] \in Seq(Message)
BY MachineNames DEF TypeOK, Queues, Machines

LEMMA Initially == Init => IInv
<1> SUFFICES ASSUME Init PROVE IInv
  OBVIOUS
<1>1. <<>> \in Pin
  <2>1. <<>> \in Seq(Digit) /\ Len(<<>>) \in 0..PinLength
    BY AtmAssumption
  <2> QED BY <2>1, Pins
<1>2. queue["bank"] = <<>> /\ queue["atm"] = <<>> /\ queue \in [Machine -> Seq(Message)]
  BY MachineNames DEF Machines, Init
<1>3. TypeOK
  BY <1>1, <1>2 DEF Init, TypeOK, State
<1>4. PinNeverOverruns /\ AcceptedPinCorrect
  BY <1>2 DEF Init, PinNeverOverruns, AcceptedPinCorrect, Accepted
<1>5. PinInFlight
  BY <1>2 DEF Init, PinInFlight, Free, Single
<1> QED BY <1>3, <1>4, <1>5 DEF IInv

-----------------------------------------------------------------------------
(* The main thread. *)
LEMMA KeyStep == IInv /\ PressKey => IInv'
<1> SUFFICES ASSUME IInv, PressKey PROVE IInv'
  OBVIOUS
<1>1. PICK k \in Key : queue' = Send(queue, "atm", <<k>>)
  BY DEF PressKey
<1>2. queue \in Queues /\ <<k>> \in Seq(Message) /\ Free(<<k>>, PinAnswer)
  BY TypeOfQueues, Keys, FreeShort DEF IInv
<1>3. LessInFlight
  BY <1>1, <1>2, FewerSend, MachineNames DEF LessInFlight, Machines
<1>4. queue' \in Queues
  BY <1>1, <1>2, SendOp, MachineNames DEF Machines
<1>5. TypeOK'
  BY <1>4 DEF PressKey, IInv, TypeOK, Queues
<1>6. Quiet
  BY <1>3 DEF Quiet, PressKey
<1> QED BY <1>5, <1>6, QuietStep

LEMMA DoneStep ==
  ASSUME NEW m \in Machine, NEW from, NEW to \in {"done_atm", "done_im", "join_atm"}
  PROVE  IInv /\ Done(m, from, to) => IInv'
<1> SUFFICES ASSUME IInv, Done(m, from, to) PROVE IInv'
  OBVIOUS
<1>1. queue \in Queues /\ <<Msg("close_queue")>> \in Seq(Message)
      /\ Free(<<Msg("close_queue")>>, PinAnswer) /\ Free(<<Msg("close_queue")>>, PinRequest)
  BY TypeOfQueues, PlainMessages, FreeShort DEF IInv, PlainName, PinAnswer, PinRequest
<1>2. LessInFlight
  BY <1>1, FewerSend, MachineNames DEF LessInFlight, Machines, Done
<1>3. queue' \in Queues
  BY <1>1, SendOp DEF Done
<1>4. TypeOK'
  BY <1>3 DEF Done, IInv, TypeOK, Queues
<1>5. Quiet
  BY <1>2 DEF Quiet, Done
<1> QED BY <1>4, <1>5, QuietStep

(* Steps that touch no queue, and those that only take something away.     *)
LEMMA SameQueues == UNCHANGED queue => LessInFlight
BY FewerSame DEF LessInFlight

LEMMA MainSteps == IInv /\ (MainStep \/ PressQuit) => IInv'
<1> SUFFICES ASSUME IInv, MainStep \/ PressQuit PROVE IInv'
  OBVIOUS
<1>1. CASE \/ Done("bank", "done_bank", "done_atm") \/ Done("atm", "done_atm", "done_im")
           \/ Done("im", "done_im", "join_atm")
  BY <1>1, DoneStep, MachineNames DEF Machines
<1>2. CASE \/ Join("atm", "join_atm", "join_bank") \/ Join("bank", "join_bank", "join_im")
           \/ Join("im", "join_im", "returned") \/ PressQuit
  <2>1. Quiet
    BY <1>2, SameQueues DEF Quiet, Join, PressQuit
  <2>2. TypeOK'
    BY <1>2 DEF Join, PressQuit, IInv, TypeOK
  <2> QED BY <2>1, <2>2, QuietStep
<1> QED BY <1>1, <1>2 DEF MainStep

(* A message is taken and dropped, or ends the thread that takes it. *)
LEMMA TakeAway ==
  ASSUME NEW m \in Machine, TypeOK, queue[m] # <<>>, queue' = Pop(queue, m)
  PROVE  LessInFlight /\ queue' \in Queues
<1>1. queue \in Queues
  BY TypeOfQueues
<1>2. LessInFlight
  BY <1>1, FewerPop, MachineNames DEF LessInFlight, Machines
<1> QED BY <1>1, <1>2, PopOp

LEMMA DropSteps ==
  IInv /\ (AtmDrop \/ AtmClose \/ BankDrop \/ BankClose \/ ImDisplay \/ ImClose) => IInv'
<1> SUFFICES ASSUME IInv, AtmDrop \/ AtmClose \/ BankDrop \/ BankClose \/ ImDisplay \/ ImClose
             PROVE  IInv'
  OBVIOUS
<1>1. PICK m \in Machine : queue[m] # <<>> /\ queue' = Pop(queue, m)
  BY MachineNames DEF Machines, AtmDrop, AtmClose, BankDrop, BankClose, ImDisplay, ImClose, Close,
     Waiting, AtmWaits
<1>2. LessInFlight /\ queue' \in Queues
  BY <1>1, TakeAway DEF IInv
<1>3. /\ UNCHANGED <<state, prompted, pin, main, abandoned>>
      /\ running' \subseteq running
  BY DEF AtmDrop, AtmClose, BankDrop, BankClose, ImDisplay, ImClose, Close
<1>4. TypeOK'
  BY <1>2, <1>3 DEF IInv, TypeOK, Queues
<1>5. Quiet
  BY <1>2, <1>3 DEF Quiet
<1> QED BY <1>4, <1>5, QuietStep

-----------------------------------------------------------------------------
(* The atm. *)
LEMMA PromptStep == IInv /\ AtmPrompt => IInv'
<1> SUFFICES ASSUME IInv, AtmPrompt PROVE IInv'
  OBVIOUS
<1>1. queue \in Queues /\ Prompt(state) \in Seq(Message) /\ queue' = Send(queue, "im", Prompt(state))
  BY TypeOfQueues, Prompts DEF IInv, TypeOK, AtmPrompt
<1>2. LessInFlight
  BY <1>1, FewerSend, MachineNames DEF LessInFlight, Machines
<1>3. queue' \in Queues
  BY <1>1, SendOp, MachineNames DEF Machines
<1>4. TypeOK'
  BY <1>3 DEF AtmPrompt, IInv, TypeOK, Queues
<1>5. Quiet
  BY <1>2 DEF Quiet, AtmPrompt
<1> QED BY <1>4, <1>5, QuietStep

LEMMA DoneProcessingStep == IInv /\ AtmDoneProcessing => IInv'
<1> SUFFICES ASSUME IInv, AtmDoneProcessing PROVE IInv'
  OBVIOUS
<1>1. queue \in Queues /\ <<Msg("eject_card")>> \in Seq(Message)
      /\ queue' = Send(queue, "im", <<Msg("eject_card")>>)
  BY TypeOfQueues, PlainMessages DEF IInv, AtmDoneProcessing, PlainName
<1>2. LessInFlight
  BY <1>1, FewerSend, MachineNames DEF LessInFlight, Machines
<1>3. queue' \in Queues
  BY <1>1, SendOp, MachineNames DEF Machines
<1>4. TypeOK'
  BY <1>3 DEF AtmDoneProcessing, IInv, TypeOK, Queues, Goto, State
<1>5. Quiet
  BY <1>2 DEF Quiet, AtmDoneProcessing, Goto, Accepted
<1> QED BY <1>4, <1>5, QuietStep

(* What the handlers leave in the queues. *)
LEMMA PassedOn ==
  ASSUME NEW q \in Queues, q["atm"] # <<>>, NEW b \in Seq(Message)
  PROVE  LET r == Send(Pop(q, "atm"), "bank", b)
         IN  /\ r \in Queues /\ r["atm"] = Tail(q["atm"]) /\ r["bank"] = q["bank"] \o b
             /\ Fewer(q["atm"], r["atm"], PinAnswer)
<1>1. PICK p \in Queues : p = Pop(q, "atm")
  BY PopOp, MachineNames DEF Machines
<1>2. PICK r \in Queues : r = Send(p, "bank", b)
  BY SendOp, MachineNames DEF Machines
<1>3. "atm" \in Machine \ {"bank"} /\ "bank" \in Machine \ {"atm"}
  BY DEF Machine
<1>4. p["atm"] = Tail(q["atm"]) /\ p["bank"] = q["bank"]
  BY <1>1, <1>3, PopOp
<1>5. r["atm"] = p["atm"] /\ r["bank"] = p["bank"] \o b
  BY <1>2, <1>3, SendOp
<1>6. Fewer(q["atm"], p["atm"], PinAnswer)
  BY <1>1, FewerPop, MachineNames DEF Machines
<1> QED BY <1>1, <1>2, <1>4, <1>5, <1>6

LEMMA HandledQueues ==
  ASSUME NEW q \in Queues, q["atm"] # <<>>, NEW b \in Seq(Message), NEW i \in Seq(Message),
         Free(b, PinRequest), NEW r, r = Send(Send(Pop(q, "atm"), "bank", b), "im", i)
  PROVE  /\ r \in Queues /\ r["atm"] = Tail(q["atm"])
         /\ Fewer(q["bank"], r["bank"], PinRequest)
         /\ Fewer(q["atm"], r["atm"], PinAnswer)
<1>1. PICK s : s = Send(Pop(q, "atm"), "bank", b)
  OBVIOUS
<1>2. /\ s \in Queues /\ s["atm"] = Tail(q["atm"]) /\ s["bank"] = q["bank"] \o b
      /\ Fewer(q["atm"], s["atm"], PinAnswer)
  BY <1>1, PassedOn
<1>3. "atm" \in Machine \ {"im"} /\ "bank" \in Machine \ {"im"} /\ "im" \in Machine
  BY DEF Machine
<1>4. r = Send(s, "im", i)
  BY <1>1
<1>5. r \in Queues /\ r["atm"] = s["atm"] /\ r["bank"] = s["bank"]
  <2>1. s \in Queues /\ "im" \in Machine
    BY <1>2, <1>3
  <2>2. Send(s, "im", i) \in Queues /\ \A n \in Machine \ {"im"} : Send(s, "im", i)[n] = s[n]
    BY <2>1, SendOp
  <2> QED BY <1>3, <1>4, <2>2
<1>6. q["bank"] \in Seq(Message)
  BY <1>3 DEF Queues
<1>7. Fewer(q["bank"], q["bank"] \o b, PinRequest)
  BY <1>6, FewerConcat
<1> QED BY <1>2, <1>5, <1>7

LEMMA HandleStep == IInv /\ AtmHandle => IInv'
<1> SUFFICES ASSUME IInv, AtmHandle PROVE IInv'
  OBVIOUS
<1>1. PICK h \in Handlers[state] :
        /\ AtmReceives(h.type)
        /\ \E b, i : /\ b = [j \in DOMAIN h.bank |-> Msg(h.bank[j])]
                     /\ i = [j \in DOMAIN h.im |-> Msg(h.im[j])]
                     /\ queue' = Send(Send(Pop(queue, "atm"), "bank", b), "im", i)
        /\ Goto(h.next)
        /\ pin' = IF h.type = "card_inserted" THEN <<>> ELSE pin
        /\ abandoned' = (abandoned \/ (state = "verifying_pin" /\ h.type = "cancel_pressed"))
        /\ UNCHANGED <<running, main>>
  BY DEF AtmHandle
<1>2. PICK b, i : /\ b = [j \in DOMAIN h.bank |-> Msg(h.bank[j])]
                  /\ i = [j \in DOMAIN h.im |-> Msg(h.im[j])]
                  /\ queue' = Send(Send(Pop(queue, "atm"), "bank", b), "im", i)
  BY <1>1
<1>3. WellHandled(state, h)
  BY HandlersAreWell DEF IInv, TypeOK
<1>4. b \in Seq(Message) /\ i \in Seq(Message) /\ Free(b, PinRequest)
  BY <1>2, <1>3, QuietMessages DEF WellHandled
<1>5. queue \in Queues /\ queue["atm"] # <<>> /\ queue["atm"] \in Seq(Message)
      /\ Head(queue["atm"]).type = h.type
  BY <1>1, TypeOfQueues DEF IInv, AtmReceives, AtmWaits, Waiting
<1>6. queue' \in Queues /\ LessInFlight /\ queue'["atm"] = Tail(queue["atm"])
  BY <1>2, <1>4, <1>5, HandledQueues DEF LessInFlight
<1>7. <<>> \in Pin /\ Len(<<>>) < PinLength
  <2>1. <<>> \in Seq(Digit) /\ Len(<<>>) \in 0..PinLength /\ Len(<<>>) < PinLength
    BY AtmAssumption
  <2> QED BY <2>1, Pins
<1>8. state' = h.next /\ pin' \in Pin
  BY <1>1, <1>7 DEF Goto, IInv, TypeOK
<1>9. TypeOK'
  <2>1. prompted' \in BOOLEAN /\ abandoned' \in BOOLEAN /\ state' \in State
    BY <1>1, <1>3 DEF Goto, IInv, TypeOK, WellHandled
  <2> QED BY <1>1, <1>6, <1>8, <2>1 DEF IInv, TypeOK, Queues
<1>10. PinNeverOverruns'
  <2>1. state' = "getting_pin" => Len(pin') < PinLength
    BY <1>1, <1>3, <1>7, <1>8 DEF WellHandled
  <2> QED BY <1>6, <2>1, RequestsStayWhole DEF IInv, LessInFlight
<1>11. CASE ~abandoned /\ state # "verifying_pin"
  <2>1. Free(queue["bank"], PinRequest) /\ Free(queue["atm"], PinAnswer)
    BY <1>11 DEF IInv, PinInFlight
  <2>2. PinInFlight'
    BY <1>6, <2>1, NothingInFlight DEF LessInFlight, Fewer
  <2>3. AcceptedPinCorrect'
    <3> SUFFICES ASSUME state' \in Accepted PROVE pin' = CorrectPin
      BY DEF AcceptedPinCorrect
    <3>1. state \in Accepted /\ h.type # "card_inserted"
      BY <1>3, <1>8, <1>11 DEF WellHandled, Accepted
    <3> QED BY <1>1, <1>11, <3>1 DEF IInv, AcceptedPinCorrect
  <2> QED BY <1>9, <1>10, <2>2, <2>3 DEF IInv
<1>12. CASE ~abandoned /\ state = "verifying_pin" /\ h.type \in PinAnswer
  <2>1. 1 \in DOMAIN queue["atm"] /\ queue["atm"][1].type = h.type
    BY <1>5, TailElements
  <2>2. ~ Free(queue["atm"], PinAnswer)
    BY <1>12, <2>1 DEF Free
  <2>3. Free(queue["bank"], PinRequest) /\ Single(queue["atm"], PinAnswer)
    BY <1>12, <2>2 DEF IInv, PinInFlight
  <2>4. Free(queue'["atm"], PinAnswer)
    BY <1>5, <1>6, <1>12, <2>3, FewerTail
  <2>5. PinInFlight'
    BY <1>6, <2>3, <2>4, NothingInFlight DEF LessInFlight, Fewer
  <2>6. AcceptedPinCorrect'
    <3> SUFFICES ASSUME state' \in Accepted PROVE pin' = CorrectPin
      BY DEF AcceptedPinCorrect
    <3>1. h.type = "pin_verified"
      BY <1>3, <1>8, <1>12 DEF WellHandled, Accepted
    <3>2. pin = CorrectPin
      BY <1>12, <2>1, <3>1 DEF IInv, PinInFlight
    <3> QED BY <1>1, <3>1, <3>2
  <2> QED BY <1>9, <1>10, <2>5, <2>6 DEF IInv
<1>13. CASE abandoned \/ (state = "verifying_pin" /\ h.type \notin PinAnswer)
  <2>1. abandoned'
    BY <1>1, <1>3, <1>13 DEF WellHandled
  <2> QED BY <1>9, <1>10, <2>1 DEF IInv, AcceptedPinCorrect, PinInFlight
<1> QED BY <1>11, <1>12, <1>13

(* The digits so far, after one more key. *)
LEMMA ShorterPin ==
  ASSUME NEW p \in Seq(Digit), NEW n \in 0..Len(p)
  PROVE  SubSeq(p, 1, n) \in Seq(Digit) /\ Len(SubSeq(p, 1, n)) = n
OBVIOUS

LEMMA EditedPin ==
  ASSUME TypeOK, Len(pin) < PinLength, NEW m \in Message
  PROVE  EditPin(m) \in Pin /\ (m.type # "digit_pressed" => Len(EditPin(m)) < PinLength)
<1>1. pin \in Seq(Digit) /\ PinLength \in Nat
  BY Pins, AtmAssumption DEF TypeOK
<1>2. CASE m.type = "digit_pressed"
  <2>1. m.digit \in Digit
    BY <1>2, MessageContents
  <2>2. Append(pin, m.digit) \in Seq(Digit) /\ Len(Append(pin, m.digit)) \in 0..PinLength
    BY <1>1, <2>1
  <2> QED BY <1>2, <2>2, Pins DEF EditPin
<1>3. CASE m.type # "digit_pressed" /\ pin = <<>>
  BY <1>3 DEF EditPin, TypeOK
<1>4. CASE m.type # "digit_pressed" /\ pin # <<>>
  <2>1. PICK p : p = SubSeq(pin, 1, Len(pin) - 1)
    OBVIOUS
  <2>2. p \in Seq(Digit) /\ Len(p) = Len(pin) - 1 /\ Len(pin) \in Nat
    <3>1. Len(pin) \in Nat \ {0}
      BY <1>1, <1>4
    <3>2. PICK n : n = Len(pin) - 1
      OBVIOUS
    <3>3. n \in 0..Len(pin)
      BY <3>1, <3>2
    <3>4. SubSeq(pin, 1, n) \in Seq(Digit) /\ Len(SubSeq(pin, 1, n)) = n
      BY <1>1, <3>3, ShorterPin
    <3> QED BY <2>1, <3>1, <3>2, <3>4
  <2>3. Len(p) \in 0..PinLength /\ Len(p) < PinLength
    BY <1>1, <2>2
  <2> QED BY <1>4, <2>1, <2>2, <2>3, Pins DEF EditPin
<1> QED BY <1>2, <1>3, <1>4

LEMMA EditStep == IInv /\ AtmEditPin => IInv'
<1> SUFFICES ASSUME IInv, AtmEditPin PROVE IInv'
  OBVIOUS
<1> DEFINE m        == Head(queue["atm"])
           complete == m.type = "digit_pressed" /\ Len(pin') = PinLength
           request  == [type |-> "verify_pin", pin |-> pin']
<1>1. /\ pin' = EditPin(m)
      /\ Goto(IF complete THEN "verifying_pin" ELSE "getting_pin")
      /\ queue' = Send(Pop(queue, "atm"), "bank", IF complete THEN <<request>> ELSE <<>>)
      /\ UNCHANGED <<running, main, abandoned>>
      /\ state = "getting_pin" /\ queue["atm"] # <<>>
  BY DEF AtmEditPin, AtmReceives, AtmWaits, Waiting
<1>2. queue \in Queues /\ queue["atm"] \in Seq(Message) /\ queue["bank"] \in Seq(Message)
  BY TypeOfQueues DEF IInv
<1>3. m \in Message
  BY <1>1, <1>2, TailElements
<1>4. pin' \in Pin /\ (m.type # "digit_pressed" => Len(pin') < PinLength)
  BY <1>1, <1>3, EditedPin DEF IInv, PinNeverOverruns
<1>5. request \in Message /\ <<request>> \in Seq(Message) /\ request.type = "verify_pin"
      /\ request.pin = pin'
  <2>1. request \in Message
    BY <1>4 DEF Message
  <2> QED BY <2>1
<1> HIDE DEF request
<1>6. /\ queue' \in Queues /\ queue'["atm"] = Tail(queue["atm"])
      /\ queue'["bank"] = queue["bank"] \o (IF complete THEN <<request>> ELSE <<>>)
      /\ Fewer(queue["atm"], queue'["atm"], PinAnswer)
  <2>1. (IF complete THEN <<request>> ELSE <<>>) \in Seq(Message)
    BY <1>5
  <2> QED BY <1>1, <1>2, <2>1, PassedOn
<1>7. ~abandoned => Free(queue["bank"], PinRequest) /\ Free(queue'["atm"], PinAnswer)
  BY <1>1, <1>6 DEF IInv, PinInFlight, Fewer
<1>8. TypeOK'
  <2>1. prompted' \in BOOLEAN /\ state' \in State
    BY <1>1 DEF Goto, State
  <2> QED BY <1>1, <1>4, <1>6, <2>1 DEF IInv, TypeOK, Queues
<1>9. CASE complete
  <2>1. state' = "verifying_pin" /\ queue'["bank"] = queue["bank"] \o <<request>>
    BY <1>1, <1>6, <1>9 DEF Goto
  <2>2. PinNeverOverruns'
    <3> SUFFICES ASSUME NEW i \in DOMAIN queue'["bank"], queue'["bank"][i].type = "verify_pin"
                 PROVE  Len(queue'["bank"][i].pin) = PinLength
      BY <2>1 DEF PinNeverOverruns
    <3>1. PICK r : r = <<request>>
      OBVIOUS
    <3>2. r \in Seq(Message) /\ \A j \in DOMAIN r : r[j] = request
      BY <1>5, <3>1
    <3>3. \/ i \in DOMAIN queue["bank"] /\ queue'["bank"][i] = queue["bank"][i]
          \/ queue'["bank"][i] = request
      BY <1>2, <2>1, <3>1, <3>2, ConcatElements
    <3> QED BY <1>5, <1>9, <3>3 DEF IInv, PinNeverOverruns
  <2>3. ASSUME ~abandoned PROVE PinInFlight'
    <3>1. /\ Single(queue'["bank"], PinRequest)
          /\ \A i \in DOMAIN queue'["bank"] :
               queue'["bank"][i].type \in PinRequest => queue'["bank"][i] = request
      BY <1>2, <1>5, <1>7, <2>1, <2>3, OneMore
    <3>2. Free(queue'["atm"], PinAnswer)
      BY <1>7, <2>3
    <3>3. Single(queue'["atm"], PinAnswer)
          /\ \A i \in DOMAIN queue'["atm"] : queue'["atm"][i].type # "pin_verified"
      BY <3>2 DEF Free, Single, PinAnswer
    <3> QED BY <1>5, <2>1, <3>1, <3>2, <3>3 DEF PinInFlight, PinRequest
  <2>4. PinInFlight'
    BY <1>1, <2>3 DEF PinInFlight
  <2>5. AcceptedPinCorrect'
    BY <2>1 DEF AcceptedPinCorrect, Accepted
  <2> QED BY <1>8, <2>2, <2>4, <2>5 DEF IInv
<1>10. CASE ~complete
  <2>1. state' = "getting_pin" /\ queue'["bank"] = queue["bank"]
    <3>1. queue["bank"] \o <<>> = queue["bank"]
      BY <1>2, ConcatEmptySeq
    <3> QED BY <1>1, <1>6, <1>10, <3>1 DEF Goto
  <2>2. Len(pin') < PinLength
    <3>1. Len(pin') \in 0..PinLength /\ PinLength \in Nat
      BY <1>4, Pins, AtmAssumption
    <3> QED BY <1>4, <1>10, <3>1
  <2>3. PinNeverOverruns'
    BY <2>1, <2>2, FewerSame, RequestsStayWhole DEF IInv
  <2>4. PinInFlight'
    <3>1. ASSUME ~abandoned PROVE PinInFlight'
      BY <1>7, <2>1, <3>1, NothingInFlight
    <3> QED BY <1>1, <3>1 DEF PinInFlight
  <2>5. AcceptedPinCorrect'
    BY <2>1 DEF AcceptedPinCorrect, Accepted
  <2> QED BY <1>8, <2>3, <2>4, <2>5 DEF IInv
<1> QED BY <1>9, <1>10

-----------------------------------------------------------------------------
(* The bank. *)
LEMMA VerifyStep == IInv /\ BankVerify => IInv'
<1> SUFFICES ASSUME IInv, BankVerify PROVE IInv'
  OBVIOUS
<1> DEFINE m     == Head(queue["bank"])
           reply == IF m.pin = CorrectPin THEN "pin_verified" ELSE "pin_incorrect"
           p     == Pop(queue, "bank")
<1>1. /\ queue["bank"] # <<>> /\ m.type = "verify_pin"
      /\ queue' = Send(p, "atm", <<Msg(reply)>>)
      /\ UNCHANGED <<running, state, prompted, pin, main, abandoned>>
  BY DEF BankVerify, Waiting
<1>2. queue \in Queues /\ queue["atm"] \in Seq(Message) /\ queue["bank"] \in Seq(Message)
  BY TypeOfQueues DEF IInv
<1>3. /\ Msg(reply) \in Message /\ <<Msg(reply)>> \in Seq(Message) /\ Msg(reply).type = reply
      /\ reply = "pin_verified" => m.pin = CorrectPin
  BY PlainMessages DEF PlainName
<1>4. p \in Queues /\ p["bank"] = Tail(queue["bank"]) /\ p["atm"] = queue["atm"]
  <2>1. "bank" \in Machine /\ "atm" \in Machine \ {"bank"}
    BY DEF Machine
  <2> QED BY <1>1, <1>2, <2>1, PopOp
<1> HIDE DEF p, reply
<1>5. /\ queue' \in Queues /\ queue'["bank"] = Tail(queue["bank"])
      /\ queue'["atm"] = queue["atm"] \o <<Msg(reply)>>
  <2>1. "atm" \in Machine /\ "bank" \in Machine \ {"atm"}
    BY DEF Machine
  <2>2. queue' \in Queues /\ queue'["atm"] = p["atm"] \o <<Msg(reply)>>
        /\ \A n \in Machine \ {"atm"} : queue'[n] = p[n]
    BY <1>1, <1>3, <1>4, <2>1, SendOp
  <2> QED BY <1>4, <2>1, <2>2
<1>6. TypeOK'
  BY <1>1, <1>5 DEF IInv, TypeOK, Queues
<1>7. PinNeverOverruns'
  <2>1. Fewer(queue["bank"], queue'["bank"], PinRequest)
    BY <1>1, <1>2, <1>5, FewerTail
  <2> QED BY <1>1, <2>1, RequestsStayWhole DEF IInv, PinNeverOverruns
<1>8. AcceptedPinCorrect'
  BY <1>1 DEF IInv, AcceptedPinCorrect
<1>9. ASSUME ~abandoned PROVE PinInFlight'
  <2>1. 1 \in DOMAIN queue["bank"] /\ queue["bank"][1] = m /\ m.type \in PinRequest
    BY <1>1, <1>2, TailElements DEF PinRequest
  <2>2. ~ Free(queue["bank"], PinRequest)
    BY <2>1 DEF Free
  <2>3. Free(queue["atm"], PinAnswer) /\ Single(queue["bank"], PinRequest)
        /\ state = "verifying_pin"
    BY <1>9, <2>2 DEF IInv, PinInFlight
  <2>4. m.pin = pin
    BY <1>1, <1>9, <2>1 DEF IInv, PinInFlight
  <2>5. Free(queue'["bank"], PinRequest)
    BY <1>1, <1>2, <1>5, <2>1, <2>3, FewerTail
  <2>6. /\ Single(queue'["atm"], PinAnswer)
        /\ \A i \in DOMAIN queue'["atm"] :
             queue'["atm"][i].type \in PinAnswer => queue'["atm"][i] = Msg(reply)
    BY <1>2, <1>3, <1>5, <2>3, OneMore
  <2>7. ASSUME NEW i \in DOMAIN queue'["atm"], queue'["atm"][i].type = "pin_verified"
        PROVE  pin' = CorrectPin
    <3>1. queue'["atm"][i] = Msg(reply)
      BY <2>6, <2>7 DEF PinAnswer
    <3> QED BY <1>1, <1>3, <2>4, <2>7, <3>1
  <2>8. Single(queue'["bank"], PinRequest)
        /\ \A i \in DOMAIN queue'["bank"] : queue'["bank"][i].type # "verify_pin"
    BY <2>5 DEF Free, Single, PinRequest
  <2> QED BY <1>1, <2>3, <2>5, <2>6, <2>7, <2>8 DEF PinInFlight
<1>10. PinInFlight'
  BY <1>1, <1>9 DEF PinInFlight
<1> QED BY <1>6, <1>7, <1>8, <1>10 DEF IInv

LEMMA StutterStep == IInv /\ UNCHANGED vars => IInv'
BY DEF IInv, vars, TypeOK, PinNeverOverruns, AcceptedPinCorrect, PinInFlight, Free, Single

-----------------------------------------------------------------------------
(* In every reachable state a request about a PIN, or its answer, is on    *)
(* its way at most once, only while the atm is verifying, and it is about  *)
(* the PIN of this session, unless a session has been abandoned.           *)
THEOREM Invariance == Spec => []IInv
<1>1. IInv /\ [Next]_vars => IInv'
  <2> SUFFICES ASSUME IInv, [Next]_vars PROVE IInv'
    OBVIOUS
  <2>1. CASE PressKey
    BY <2>1, KeyStep
  <2>2. CASE MainStep \/ PressQuit
    BY <2>2, MainSteps
  <2>3. CASE AtmPrompt
    BY <2>3, PromptStep
  <2>4. CASE AtmDoneProcessing
    BY <2>4, DoneProcessingStep
  <2>5. CASE AtmHandle
    BY <2>5, HandleStep
  <2>6. CASE AtmEditPin
    BY <2>6, EditStep
  <2>7. CASE BankVerify
    BY <2>7, VerifyStep
  <2>8. CASE AtmDrop \/ AtmClose \/ BankDrop \/ BankClose \/ ImDisplay \/ ImClose
    BY <2>8, DropSteps
  <2>9. CASE UNCHANGED vars
    BY <2>9, StutterStep
  <2> QED BY <2>1, <2>2, <2>3, <2>4, <2>5, <2>6, <2>7, <2>8, <2>9
          DEF Next, AtmStep, BankStep, ImStep, Returned
<1> QED BY <1>1, Initially, PTL DEF Spec

(* Every queue holds messages of the framework, the atm is in one of its   *)
(* states and m_pin never holds more than pin_length digits.               *)
THEOREM TypeCorrect == Spec => []TypeOK
<1>1. IInv => TypeOK
  BY DEF IInv
<1> QED BY <1>1, Invariance, PTL

(* The digit that completes the PIN is never jumped over, for any          *)
(* pin_length, keys and number of sessions.                                *)
THEOREM PinFits == Spec => []PinNeverOverruns
<1>1. IInv => PinNeverOverruns
  BY DEF IInv
<1> QED BY <1>1, Invariance, PTL

(* Until a session is abandoned in verifying_pin, no customer gets past    *)
(* the PIN with anything but the right one.                                *)
THEOREM OnlyTheRightPin == Spec => []AcceptedPinCorrect
<1>1. IInv => AcceptedPinCorrect
  BY DEF IInv
<1> QED BY <1>1, Invariance, PTL

=============================================================================
