-------------------------------- MODULE Atm --------------------------------
(***************************************************************************)
(* The program of "11.1 message_passing_framework_atm_example.cpp": the    *)
(* cash machine, the bank and the interface run in three threads, each of  *)
(* which only reads its own message_queue; the main thread turns keys into *)
(* messages and shuts everything down on 'q'.                              *)
(*                                                                         *)
(* A send appends to a queue in one step and a receive removes from it in  *)
(* one step: each is one critical section of the queue's only mutex, and a *)
(* sender notifies every waiter before it leaves.  A handler runs to its   *)
(* end in one step, since it reads nothing that another thread writes.     *)
(***************************************************************************)
EXTENDS Naturals, Sequences

CONSTANTS
  Digit,        (* the digit keys                                          *)
  PinLength,    (* pin_length, 4 in the code                               *)
  CorrectPin,   (* "4326" in the code                                      *)
  MaxQueue      (* bound: no key is pressed while a queue is this long     *)

ASSUME AtmAssumption ==
  /\ PinLength \in Nat \ {0}
  /\ CorrectPin \in [1..PinLength -> Digit]
  /\ MaxQueue \in [{"bank", "atm", "im"} -> Nat \ {0}]

VARIABLES
  queue,      (* m_queue of the receiver of each machine                   *)
  running,    (* the machines whose run() has not returned                 *)
  state,      (* m_state of the atm                                        *)
  prompted,   (* the state function, if it has a prompt, has sent it       *)
  pin,        (* m_pin of the atm                                          *)
  main,       (* what the main thread does next                            *)
  abandoned   (* history: a session was cancelled while the bank still     *)
              (* owed it an answer about its PIN                           *)

vars == <<queue, running, state, prompted, pin, main, abandoned>>

Machine == {"bank", "atm", "im"}

State == {"waiting_for_card", "getting_pin", "verifying_pin", "wait_for_action",
          "process_balance", "process_withdrawal", "done_processing"}

Msg(type) == [type |-> type]

(* Keys that become a message without contents. *)
PlainKey == {"balance_pressed", "withdraw_pressed", "cancel_pressed", "card_inserted"}

Key == {Msg(k) : k \in PlainKey} \cup {[type |-> "digit_pressed", digit |-> d] : d \in Digit}

(* send_message to one machine. *)
Send(q, machine, msgs) == [q EXCEPT ![machine] = @ \o msgs]

(* wait_and_pop of one machine's own queue. *)
Pop(q, machine) == [q EXCEPT ![machine] = Tail(@)]

Init ==
  /\ queue = [m \in Machine |-> <<>>]
  /\ running = Machine
  /\ state = "waiting_for_card"
  /\ prompted = FALSE
  /\ pin = <<>>
  /\ main = "typing"
  /\ abandoned = FALSE

(***************************************************************************)
(* The main thread                                                         *)
(***************************************************************************)
PressKey ==
  /\ main = "typing"
  /\ \A m \in Machine : Len(queue[m]) < MaxQueue[m]
  /\ \E k \in Key : queue' = Send(queue, "atm", <<k>>)
  /\ UNCHANGED <<running, state, prompted, pin, main, abandoned>>

PressQuit ==
  /\ main = "typing"
  /\ main' = "done_bank"
  /\ UNCHANGED <<queue, running, state, prompted, pin, abandoned>>

(* bm.done(), machine.done() and im.done(), in this order. *)
Done(machine, from, to) ==
  /\ main = from
  /\ queue' = Send(queue, machine, <<Msg("close_queue")>>)
  /\ main' = to
  /\ UNCHANGED <<running, state, prompted, pin, abandoned>>

Join(machine, from, to) ==
  /\ main = from
  /\ machine \notin running
  /\ main' = to
  /\ UNCHANGED <<queue, running, state, prompted, pin, abandoned>>

(* Mutant: main forgets machine.done(). *)
MainStepForgetsAtm ==
  \/ Done("bank", "done_bank", "done_im")
  \/ Done("im", "done_im", "join_atm")
  \/ Join("atm", "join_atm", "join_bank")
  \/ Join("bank", "join_bank", "join_im")
  \/ Join("im", "join_im", "returned")

MainStep ==
  \/ Done("bank", "done_bank", "done_atm")
  \/ Done("atm", "done_atm", "done_im")
  \/ Done("im", "done_im", "join_atm")
  \/ Join("atm", "join_atm", "join_bank")
  \/ Join("bank", "join_bank", "join_im")
  \/ Join("im", "join_im", "returned")

(***************************************************************************)
(* Receiving: a message is handled, ends the thread, or is dropped         *)
(***************************************************************************)
Waiting(machine) == machine \in running /\ queue[machine] # <<>>

(* dispatcher::dispatch throws close_queue, which run() catches. *)
Close(machine) ==
  /\ Waiting(machine)
  /\ Head(queue[machine]).type = "close_queue"
  /\ queue' = Pop(queue, machine)
  /\ running' = running \ {machine}

(***************************************************************************)
(* The atm.  Each state function is the set of its simple handlers: the    *)
(* message, the next state and what is sent to the bank and the interface. *)
(***************************************************************************)
On(type, next, bank, im) == [type |-> type, next |-> next, bank |-> bank, im |-> im]

WaitingForCard == {
  On("card_inserted", "getting_pin", <<>>, <<"display_enter_pin">>)}

(* Mutant: cancel_pressed is not handled. *)
GettingPinNoCancel == {}

GettingPin == {
  On("cancel_pressed", "done_processing", <<>>, <<>>)}

VerifyingPin == {
  On("pin_verified", "wait_for_action", <<>>, <<>>),
  On("pin_incorrect", "done_processing", <<>>, <<"display_pin_incorrect_message">>),
  On("cancel_pressed", "done_processing", <<>>, <<>>)}

WaitForAction == {
  On("withdraw_pressed", "process_withdrawal", <<"withdraw">>, <<>>),
  On("balance_pressed", "process_balance", <<"get_balance">>, <<>>),
  On("cancel_pressed", "done_processing", <<>>, <<>>)}

ProcessBalance == {
  On("balance", "wait_for_action", <<>>, <<"display_balance">>),
  On("cancel_pressed", "done_processing", <<>>, <<>>)}

ProcessWithdrawal == {
  On("withdraw_ok", "done_processing", <<"withdrawal_processed">>, <<"issue_money">>),
  On("withdraw_denied", "done_processing", <<>>, <<"display_insufficient_funds">>),
  On("cancel_pressed", "done_processing", <<"cancel_withdrawal">>,
     <<"display_withdrawal_cancelled">>)}

Handlers ==
  [waiting_for_card   |-> WaitingForCard,
   getting_pin        |-> GettingPin,
   verifying_pin      |-> VerifyingPin,
   wait_for_action    |-> WaitForAction,
   process_balance    |-> ProcessBalance,
   process_withdrawal |-> ProcessWithdrawal,
   done_processing    |-> {}]

(* The messages with which two of the state functions begin. *)
Prompt(s) == CASE s = "waiting_for_card" -> <<Msg("display_enter_card")>>
               [] s = "wait_for_action"  -> <<Msg("display_withdrawal_options")>>
               [] OTHER                  -> <<>>

Goto(s) == state' = s /\ prompted' = (Prompt(s) = <<>>)

(* A state function with a prompt is called. *)
AtmPrompt ==
  /\ "atm" \in running /\ ~prompted
  /\ queue' = Send(queue, "im", Prompt(state))
  /\ prompted' = TRUE
  /\ UNCHANGED <<running, state, pin, main, abandoned>>

(* done_processing waits for nothing. *)
AtmDoneProcessing ==
  /\ "atm" \in running /\ state = "done_processing"
  /\ queue' = Send(queue, "im", <<Msg("eject_card")>>)
  /\ Goto("waiting_for_card")
  /\ UNCHANGED <<running, pin, main, abandoned>>

(* The atm is in its wait and this type of message is next. *)
AtmWaits == Waiting("atm") /\ prompted /\ state # "done_processing"
AtmReceives(type) == AtmWaits /\ Head(queue["atm"]).type = type

(* Mutant: m_pin is not cleared for a new card. *)
AtmHandleKeepsPin ==
  \E h \in Handlers[state] :
    /\ AtmReceives(h.type)
    /\ LET msgs(types) == [i \in DOMAIN types |-> Msg(types[i])]
       IN  queue' = Send(Send(Pop(queue, "atm"), "bank", msgs(h.bank)), "im", msgs(h.im))
    /\ Goto(h.next)
    /\ UNCHANGED <<running, pin, main, abandoned>>

AtmHandle ==
  \E h \in Handlers[state] :
    /\ AtmReceives(h.type)
    /\ LET msgs(types) == [i \in DOMAIN types |-> Msg(types[i])]
       IN  queue' = Send(Send(Pop(queue, "atm"), "bank", msgs(h.bank)), "im", msgs(h.im))
    /\ Goto(h.next)
    /\ pin' = IF h.type = "card_inserted" THEN <<>> ELSE pin
    /\ abandoned' = (abandoned \/ (state = "verifying_pin" /\ h.type = "cancel_pressed"))
    /\ UNCHANGED <<running, main>>

(* m_pin after the key, in getting_pin; no key sends clear_last_pressed. *)
EditPin(m) ==
  IF m.type = "digit_pressed" THEN Append(pin, m.digit)
  ELSE IF pin = <<>> THEN pin ELSE SubSeq(pin, 1, Len(pin) - 1)

PinKey == {"digit_pressed", "clear_last_pressed"}

(* getting_pin: the digit that completes the PIN sends it to the bank. *)
AtmEditPin ==
  /\ state = "getting_pin" /\ \E k \in PinKey : AtmReceives(k)
  /\ LET m        == Head(queue["atm"])
         complete == m.type = "digit_pressed" /\ Len(pin') = PinLength
         request  == [type |-> "verify_pin", pin |-> pin']
     IN  /\ pin' = EditPin(m)
         /\ Goto(IF complete THEN "verifying_pin" ELSE "getting_pin")
         /\ queue' = Send(Pop(queue, "atm"), "bank", IF complete THEN <<request>> ELSE <<>>)
  /\ UNCHANGED <<running, main, abandoned>>

(* Any other message is dropped and the state function goes on waiting. *)
AtmDrop ==
  /\ AtmWaits
  /\ LET type == Head(queue["atm"]).type
     IN  /\ type \notin {h.type : h \in Handlers[state]} \cup {"close_queue"}
         /\ ~ (state = "getting_pin" /\ type \in PinKey)
  /\ queue' = Pop(queue, "atm")
  /\ UNCHANGED <<running, state, prompted, pin, main, abandoned>>

AtmClose ==
  /\ AtmWaits
  /\ Close("atm")
  /\ UNCHANGED <<state, prompted, pin, main, abandoned>>

AtmStep == AtmPrompt \/ AtmDoneProcessing \/ AtmHandle \/ AtmEditPin \/ AtmDrop \/ AtmClose

(***************************************************************************)
(* The bank answers verify_pin; nothing else it receives has an effect.    *)
(***************************************************************************)
(* Mutant: the two answers are swapped. *)
BankVerifySwapped ==
  /\ Waiting("bank") /\ Head(queue["bank"]).type = "verify_pin"
  /\ LET reply == IF Head(queue["bank"]).pin = CorrectPin THEN "pin_incorrect" ELSE "pin_verified"
     IN  queue' = Send(Pop(queue, "bank"), "atm", <<Msg(reply)>>)
  /\ UNCHANGED <<running, state, prompted, pin, main, abandoned>>

(* Mutant: a wrong PIN is not answered. *)
BankVerifySilent ==
  /\ Waiting("bank") /\ Head(queue["bank"]).type = "verify_pin"
  /\ LET reply == IF Head(queue["bank"]).pin = CorrectPin THEN <<Msg("pin_verified")>> ELSE <<>>
     IN  queue' = Send(Pop(queue, "bank"), "atm", reply)
  /\ UNCHANGED <<running, state, prompted, pin, main, abandoned>>

BankVerify ==
  /\ Waiting("bank") /\ Head(queue["bank"]).type = "verify_pin"
  /\ LET reply == IF Head(queue["bank"]).pin = CorrectPin THEN "pin_verified" ELSE "pin_incorrect"
     IN  queue' = Send(Pop(queue, "bank"), "atm", <<Msg(reply)>>)
  /\ UNCHANGED <<running, state, prompted, pin, main, abandoned>>

BankDrop ==
  /\ Waiting("bank") /\ Head(queue["bank"]).type \notin {"verify_pin", "close_queue"}
  /\ queue' = Pop(queue, "bank")
  /\ UNCHANGED <<running, state, prompted, pin, main, abandoned>>

BankClose == Close("bank") /\ UNCHANGED <<state, prompted, pin, main, abandoned>>

BankStep == BankVerify \/ BankDrop \/ BankClose

(***************************************************************************)
(* The interface displays every message.                                   *)
(***************************************************************************)
ImDisplay ==
  /\ Waiting("im") /\ Head(queue["im"]).type # "close_queue"
  /\ queue' = Pop(queue, "im")
  /\ UNCHANGED <<running, state, prompted, pin, main, abandoned>>

ImClose == Close("im") /\ UNCHANGED <<state, prompted, pin, main, abandoned>>

ImStep == ImDisplay \/ ImClose

(* The program has returned from main. *)
Returned == main = "returned" /\ UNCHANGED vars

Next == PressKey \/ PressQuit \/ MainStep \/ AtmStep \/ BankStep \/ ImStep \/ Returned

(* Every thread is scheduled; the user need not press anything. *)
Spec ==
  /\ Init /\ [][Next]_vars
  /\ WF_vars(MainStep) /\ WF_vars(AtmStep) /\ WF_vars(BankStep) /\ WF_vars(ImStep)

-----------------------------------------------------------------------------
Pin == UNION {[1..n -> Digit] : n \in 0..PinLength}

Message ==
  Key \cup {[type |-> "verify_pin", pin |-> p] : p \in Pin}
      \cup {Msg(type) : type \in
             {"close_queue", "clear_last_pressed", "pin_verified", "pin_incorrect", "balance",
              "withdraw_ok", "withdraw_denied", "withdraw", "get_balance", "cancel_withdrawal",
              "withdrawal_processed", "display_enter_card", "display_enter_pin",
              "display_pin_incorrect_message", "display_withdrawal_options", "display_balance",
              "display_insufficient_funds", "display_withdrawal_cancelled", "issue_money",
              "eject_card"}}

(* The type of every variable. *)
TypeOK ==
  /\ queue \in [Machine -> Seq(Message)]
  /\ running \subseteq Machine
  /\ state \in State
  /\ prompted \in BOOLEAN
  /\ pin \in Pin
  /\ main \in {"typing", "done_bank", "done_atm", "done_im", "join_atm", "join_bank", "join_im",
               "returned"}
  /\ abandoned \in BOOLEAN

(* While digits are collected the PIN is shorter than pin_length, over any *)
(* number of cancelled and repeated sessions: the == of line 592 fires on  *)
(* the completing digit and can never be jumped over.  What reaches the    *)
(* bank always has pin_length digits.                                      *)
PinNeverOverruns ==
  /\ state = "getting_pin" => Len(pin) < PinLength
  /\ \A i \in DOMAIN queue["bank"] :
       queue["bank"][i].type = "verify_pin" => Len(queue["bank"][i].pin) = PinLength

Accepted == {"wait_for_action", "process_balance", "process_withdrawal"}

(* The customer gets past the PIN only with the PIN of this session, as    *)
(* long as no session was ever cancelled before the bank's answer: a       *)
(* pin_verified does not say which request it answers.                     *)
AcceptedPinCorrect == state \in Accepted /\ ~abandoned => pin = CorrectPin

(* Messages of these types are not in a queue, or one of them at most.     *)
Free(s, types)   == \A i \in DOMAIN s : s[i].type \notin types
Single(s, types) == \A i, j \in DOMAIN s : s[i].type \in types /\ s[j].type \in types => i = j

PinRequest == {"verify_pin"}
PinAnswer  == {"pin_verified", "pin_incorrect"}

(* Unless a session was abandoned, a request or its answer is on its way   *)
(* only in verifying_pin, only one of them, and it is about this PIN.      *)
PinInFlight ==
  ~abandoned =>
    /\ Free(queue["bank"], PinRequest) \/ Free(queue["atm"], PinAnswer)
    /\ Single(queue["bank"], PinRequest) /\ Single(queue["atm"], PinAnswer)
    /\ state # "verifying_pin" => Free(queue["bank"], PinRequest) /\ Free(queue["atm"], PinAnswer)
    /\ \A i \in DOMAIN queue["bank"] :
         queue["bank"][i].type = "verify_pin" => queue["bank"][i].pin = pin
    /\ \A i \in DOMAIN queue["atm"] : queue["atm"][i].type = "pin_verified" => pin = CorrectPin

IInv == TypeOK /\ PinNeverOverruns /\ AcceptedPinCorrect /\ PinInFlight

(* The bank answers every PIN: the atm does not stay in verifying_pin.     *)
PinIsAnswered == state = "verifying_pin" ~> state # "verifying_pin" \/ "atm" \notin running

CancelQueued == \E i \in DOMAIN queue["atm"] : queue["atm"][i].type = "cancel_pressed"

(* Whatever the atm is doing with a card, pressing cancel gets the card    *)
(* ejected (or the program is shut down first).                            *)
CancelEjects ==
  CancelQueued /\ state # "waiting_for_card" ~> state = "waiting_for_card" \/ "atm" \notin running

(* After 'q' the three threads end and main returns, whatever the machines *)
(* were waiting for from one another.                                      *)
QuitReturns == main # "typing" ~> main = "returned"
=============================================================================
