--------------------------------- MODULE Bots ---------------------------------
(***************************************************************************)
(* The bots of the DialMessenger plugin (plugins/dialmsn/dialmsn_bot.c):   *)
(* threads that take a woman from the database, simulate her while her     *)
(* time lasts, and run a dialogue with the men the database gives them.    *)
(* The database marks who is taken: a query is one step.  `alone' is the   *)
(* first bot without the others.  Delays and the text of the scenarios are *)
(* left out; a query that fails ends the bot.                              *)
(***************************************************************************)
EXTENDS Integers, FiniteSets

CONSTANTS
  Bots, Women, Men, None

VARIABLES
  alone,
  fails,      (* a woman can be impossible to simulate                     *)
  bot,        (* [at, uid, started (impersonation_start), man (spammee_uid)*)
              (*  and talks]                                               *)
  women, men, (* in the database: the bot they are taken for, or None      *)
  online,     (* the women simulated                                       *)
  stop        (* bot_stop                                                  *)

vars == <<alone, fails, bot, women, men, online, stop>>

settings == <<alone, fails>>

Init ==
  /\ alone \in BOOLEAN /\ fails \in BOOLEAN
  /\ bot = [b \in Bots |-> [at |-> "top", uid |-> None, started |-> FALSE, man |-> None,
                            talks |-> FALSE]]
  /\ women = [w \in Women |-> None] /\ men = [m \in Men |-> None]
  /\ online = {} /\ stop = FALSE

Chosen == CHOOSE c \in Bots : TRUE
At(b, l) == bot[b].at = l /\ (alone => b = Chosen)
To(b, l) == bot' = [bot EXCEPT ![b].at = l]

(* The top of the loop: her time is over, or not, or there is no woman.    *)
Expired(b) ==
  /\ At(b, "top") /\ ~ stop /\ bot[b].started
  /\ online' = online \ {bot[b].uid} /\ To(b, "release woman")
  /\ UNCHANGED <<settings, women, men, stop>>

ReleaseWoman_Forgets(b) ==        \* mutant: she stays taken in the database
  /\ At(b, "release woman")
  /\ bot' = [bot EXCEPT ![b] = [@ EXCEPT !.at = "continue", !.uid = None, !.started = FALSE]]
  /\ UNCHANGED <<settings, women, men, online, stop>>

ReleaseWoman(b) ==
  /\ At(b, "release woman")
  /\ women' = [women EXCEPT ![bot[b].uid] = None]
  /\ bot' = [bot EXCEPT ![b] = [@ EXCEPT !.at = "continue", !.uid = None, !.started = FALSE]]
  /\ UNCHANGED <<settings, men, online, stop>>

Acquire(b) ==
  /\ At(b, "top") /\ ~ stop /\ ~ bot[b].started
  /\ \/ \E w \in Women :
          /\ women[w] = None /\ women' = [women EXCEPT ![w] = b]
          /\ bot' = [bot EXCEPT ![b] = [@ EXCEPT !.at = "simulate", !.uid = w]]
     \/ (\A w \in Women : women[w] # None) /\ To(b, "continue") /\ UNCHANGED women
     \/ To(b, "dead") /\ UNCHANGED women
  /\ UNCHANGED <<settings, men, online, stop>>

Simulate(b) ==
  /\ At(b, "simulate")
  /\ \/ /\ online' = online \cup {bot[b].uid}
        /\ bot' = [bot EXCEPT ![b] = [@ EXCEPT !.at = "work", !.started = TRUE]]
     \/ fails /\ To(b, "continue") /\ UNCHANGED online
  /\ UNCHANGED <<settings, women, men, stop>>

Stay(b) ==
  /\ At(b, "top") /\ ~ stop /\ bot[b].started /\ To(b, "work")
  /\ UNCHANGED <<settings, women, men, online, stop>>

(* A man to talk to and a scenario, which may be impossible to run.        *)
GetWork(b) ==
  /\ At(b, "work")
  /\ \/ \E m \in Men :
          /\ men[m] = None /\ men' = [men EXCEPT ![m] = b]
          /\ \E talks \in BOOLEAN : bot' = [bot EXCEPT ![b] =
               [@ EXCEPT !.at = IF talks THEN "talk" ELSE "continue", !.man = m, !.talks = talks]]
     \/ To(b, "continue") /\ UNCHANGED men
     \/ To(b, "dead") /\ UNCHANGED men
  /\ UNCHANGED <<settings, women, online, stop>>

Release(b, l) ==
  IF bot[b].man = None THEN To(b, l) /\ UNCHANGED men
  ELSE /\ men' = [men EXCEPT ![bot[b].man] = None]
       /\ bot' = [bot EXCEPT ![b] = [@ EXCEPT !.at = l, !.talks = FALSE]]

TalkOver(b) ==
  /\ At(b, "talk") /\ Release(b, "mail")
  /\ UNCHANGED <<settings, women, online, stop>>

(* Only when the mail has been sent is the man forgotten.                  *)
Mail(b) ==
  /\ At(b, "mail")
  /\ \/ bot' = [bot EXCEPT ![b] = [@ EXCEPT !.at = "continue", !.man = None]]
     \/ To(b, "continue")
  /\ UNCHANGED <<settings, women, men, online, stop>>

Continue(b) ==
  /\ At(b, "continue") /\ Release(b, "top")
  /\ UNCHANGED <<settings, women, online, stop>>

(* dialmsn_bot_fini(): a bot that sleeps is cancelled, or sees the flag.   *)
Stop ==
  /\ ~ stop /\ stop' = TRUE
  /\ UNCHANGED <<settings, bot, women, men, online>>

Leave(b) ==
  /\ At(b, "top") /\ stop /\ To(b, "dead")
  /\ women' = IF bot[b].uid = None THEN women ELSE [women EXCEPT ![bot[b].uid] = None]
  /\ UNCHANGED <<settings, men, online, stop>>

Cancelled(b) ==
  /\ stop /\ bot[b].at \in {"work", "talk", "mail", "continue"} /\ To(b, "dead")
  /\ UNCHANGED <<settings, women, men, online, stop>>

Next ==
  \/ Stop
  \/ \E b \in Bots :
       \/ Expired(b) \/ ReleaseWoman(b) \/ Acquire(b) \/ Simulate(b) \/ Stay(b)
       \/ GetWork(b) \/ TalkOver(b) \/ Mail(b) \/ Continue(b) \/ Leave(b) \/ Cancelled(b)

Spec == Init /\ [][Next]_vars

-----------------------------------------------------------------------------
Living(b) == bot[b].at # "dead"

(* A woman is simulated by one bot, the one she was taken for, and nobody  *)
(* else is simulated while the bots run.                                   *)
OneWoman ==
  /\ \A b \in Bots : (Living(b) /\ bot[b].uid # None /\ ~ stop) => women[bot[b].uid] = b
  /\ \A w \in online : women[w] # None \/ stop
  /\ \A b \in Bots : (Living(b) /\ bot[b].started /\ bot[b].at # "release woman") => bot[b].uid \in online

(* A woman that is taken is the one of a bot: when all can be simulated,   *)
(* and no bot has died.                                                    *)
NoneLost ==
  (~ fails /\ \A b \in Bots : Living(b)) =>
    \A w \in Women : women[w] # None => bot[women[w]].uid = w

(* A man is taken while a bot talks to him.                                *)
OwnMan == \A b \in Bots : Living(b) /\ bot[b].talks => men[bot[b].man] = b
OwnManAlone == alone => OwnMan

BotsSafe == OneWoman /\ NoneLost /\ OwnManAlone

-----------------------------------------------------------------------------
(* The inductive invariant.                                                *)
Places == {"top", "release woman", "simulate", "work", "talk", "mail", "continue", "dead"}
Bot == [at : Places, uid : Women \cup {None}, started : BOOLEAN, man : Men \cup {None},
        talks : BOOLEAN]
TypeOK ==
  /\ alone \in BOOLEAN /\ fails \in BOOLEAN /\ stop \in BOOLEAN /\ online \subseteq Women
  /\ bot \in [Bots -> Bot]
  /\ women \in [Women -> Bots \cup {None}] /\ men \in [Men -> Bots \cup {None}]

(* Where a bot is tells what it has.                                       *)
Consistent(b) ==
  /\ bot[b].started => bot[b].uid # None
  /\ bot[b].at = "simulate" => ~ bot[b].started /\ bot[b].uid # None
  /\ bot[b].at \in {"release woman", "work", "talk", "mail"} => bot[b].started
  /\ (~ fails /\ bot[b].uid # None) => bot[b].started \/ bot[b].at \in {"simulate", "dead"}
  /\ (bot[b].at = "release woman" /\ ~ stop) => bot[b].uid \notin online
  /\ bot[b].talks => bot[b].at \in {"talk", "dead"} /\ bot[b].man # None
  /\ alone /\ b # Chosen => bot[b].at = "top" /\ ~ bot[b].talks

IInv == TypeOK /\ (\A b \in Bots : Consistent(b)) /\ BotsSafe
=============================================================================
