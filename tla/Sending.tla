-------------------------------- MODULE Sending --------------------------------
(***************************************************************************)
(* How a plugin makes a reply and hands it over (lib/m_server.c): a string *)
(* formatted, copied or given away, a reply made piece by piece, a request *)
(* to another server with the files of its form.  An allocation may fail   *)
(* at any step, and the socket may be gone.  What is followed is memory:   *)
(* who has to free each object.  The length of a form is in Codecs.        *)
(***************************************************************************)
EXTENDS Integers, FiniteSets, Sequences

CONSTANTS MaxParts         (* bound: the files of a form                   *)

VARIABLES
  call,    (* the function called                                          *)
  step,    (* where it is                                                  *)
  owner,   (* object -> who has it                                         *)
  frees,   (* object -> how many times it was freed                        *)
  parts,   (* the files not sent yet                                       *)
  sent     (* replies given to server_send_reply and not dropped           *)

vars == <<call, step, owner, frees, parts, sent>>

Calls == {"send_response", "send_buffer", "send_string", "send_http", "reply"}
Objects == {"header", "header2", "footer", "file", "file2", "request", "compiled"}
Owners == {"none", "caller", "call", "reply", "queue", "freed"}
(* What the caller has when it calls.                                      *)
Given(c) == CASE c = "send_string" -> {"header"}
              [] c = "send_http" -> {"request"}
              [] c = "reply" -> {"header", "header2", "footer", "file", "file2"}
              [] OTHER -> {}

Init ==
  /\ call \in Calls /\ step = "init" /\ sent = 0
  /\ owner = [o \in Objects |-> IF o \in Given(call) THEN "caller" ELSE "none"]
  /\ frees = [o \in Objects |-> 0]
  /\ parts \in IF call = "send_http" THEN 0 .. MaxParts ELSE {0}

Held == {o \in Objects : owner[o] = "reply"}
Go(l) == step' = l
Move(O, who) == owner' = [o \in Objects |-> IF o \in O THEN who ELSE owner[o]]
Free(O) ==
  /\ Move(O, "freed")
  /\ frees' = [o \in Objects |-> IF o \in O THEN frees[o] + 1 ELSE frees[o]]
Keep == UNCHANGED <<call, parts, sent>>

(* The request is compiled first.                                          *)
Compile ==
  /\ call = "send_http" /\ step = "init" /\ owner["compiled"] = "none"
  /\ Move({"compiled"}, "call") /\ UNCHANGED <<step, frees>> /\ Keep

(* server_reply_init() fails: what was made or compiled is not freed.      *)
ReplyInit ==
  /\ step = "init" /\ (call = "send_http" => owner["compiled"] = "call")
  /\ Go("made") \/ Go("failed")
  /\ UNCHANGED <<owner, frees>> /\ Keep

ReplyFree(O) == Free(Held \cup O) /\ Go("failed")

(* The string: formatted, copied, or the one given.  A form with a file is *)
(* sent in threes: what precedes a file, the file, what follows it.        *)
SetHeader ==
  /\ step = "made" /\ call # "reply"
  /\ IF call = "send_http" /\ parts = 0
     THEN Move({"compiled"}, "reply") /\ Go("send") /\ UNCHANGED frees
     ELSE \/ Move({"header"}, "reply") /\ Go(IF call = "send_http" THEN "file" ELSE "send")
             /\ UNCHANGED frees
          \/ call # "send_string" /\ ReplyFree(IF call = "send_http" THEN {"compiled"} ELSE {})
  /\ Keep

(* fs_reopenfile() and string_dup().                                       *)
SetFile ==
  /\ step = "file"
  /\ \/ Move({"file"}, "reply") /\ Go("footer") /\ UNCHANGED frees
     \/ ReplyFree({"compiled"})
  /\ Keep

SetFooter ==
  /\ step = "footer"
  /\ \/ Move({"footer"}, "reply") /\ Go("send") /\ UNCHANGED frees
     \/ ReplyFree({"compiled"})
  /\ Keep

(* A second header is added to the first and freed, a second file takes    *)
(* the place of the first; out of band there is no file, and the caller    *)
(* frees what it has made, as dialmsn_userlist_getconnected() does.        *)
Build(o, second, replaced) ==
  /\ step = "made" /\ call = "reply" /\ owner[o] = "caller"
  /\ IF second \notin Held THEN Move({o}, "reply") /\ UNCHANGED frees
     ELSE IF replaced
          THEN /\ owner' = [owner EXCEPT ![o] = "reply", ![second] = "freed"]
               /\ frees' = [frees EXCEPT ![second] = @ + 1]
          ELSE Free({o})
  /\ UNCHANGED step /\ Keep

ReplySetHeader == Build("header", "header2", FALSE) \/ Build("header2", "header", FALSE)
ReplySetFooter == Build("footer", "footer", FALSE)
ReplySetFile == Build("file", "file2", TRUE) \/ Build("file2", "file", TRUE)
Abandon == step = "made" /\ call = "reply" /\ ReplyFree({}) /\ Keep
Finished == step = "made" /\ call = "reply" /\ Go("send") /\ UNCHANGED <<owner, frees>> /\ Keep

(* server_send_reply() takes the reply, and frees it when there is no such *)
(* socket or no memory for its queue: the function knows nothing of it.    *)
(* Pieces of the next file of a form are other objects.                    *)
SendReply ==
  /\ step = "send"
  /\ \/ Move(Held, "queue") /\ sent' = sent + 1 /\ UNCHANGED frees
     \/ Free(Held) /\ UNCHANGED sent
  /\ IF parts > 0 THEN parts' = parts - 1 /\ Go("sent")
     ELSE UNCHANGED parts /\ Go("end")
  /\ UNCHANGED call

NextPart ==
  /\ step = "sent" /\ parts > 0 /\ Go("init")
  /\ owner' = [o \in Objects |-> IF o \in {"header", "file", "footer"} THEN "none" ELSE owner[o]]
  /\ frees' = [o \in Objects |-> IF o \in {"header", "file", "footer"} THEN 0 ELSE frees[o]]
  /\ Keep

End_FreesCompiled ==      \* mutant: what the reply has taken is freed too
  /\ step = "end" \/ (step = "sent" /\ parts = 0)
  /\ Go("done")
  /\ IF call = "send_http" THEN Free({"request", "compiled"}) ELSE UNCHANGED <<owner, frees>>
  /\ Keep

(* The request of the plugin is closed once all is sent.                   *)
End ==
  /\ step = "end" \/ (step = "sent" /\ parts = 0)
  /\ Go("done")
  /\ IF call = "send_http"
     THEN Free({"request"} \cup (IF owner["compiled"] = "call" THEN {"compiled"} ELSE {}))
     ELSE UNCHANGED <<owner, frees>>
  /\ Keep

Next ==
  \/ Compile \/ ReplyInit \/ SetHeader \/ SetFile \/ SetFooter \/ SendReply \/ NextPart \/ End
  \/ ReplySetHeader \/ ReplySetFooter \/ ReplySetFile \/ Abandon \/ Finished

Spec == Init /\ [][Next]_vars

-----------------------------------------------------------------------------
(* Nothing is freed twice, or freed and queued.  A function that succeeds  *)
(* has taken what it was given, one that fails has left it to the caller,  *)
(* and it keeps nothing itself: but for what server_send_http() compiled   *)
(* when there is no memory for the reply.                                  *)
SendingSafe ==
  /\ \A o \in Objects : frees[o] = IF owner[o] = "freed" THEN 1 ELSE 0
  /\ step = "done" => \A o \in Given(call) : call # "reply" => owner[o] # "caller"
  /\ step = "failed" /\ call # "reply" => \A o \in Given(call) : owner[o] = "caller"
  /\ step \in {"done", "failed"} =>
       /\ Held = {}
       /\ \A o \in Objects \ {"compiled"} : owner[o] # "call"
  /\ step = "done" => owner["compiled"] # "call"

-----------------------------------------------------------------------------
(* The inductive invariant.                                                *)
Steps == {"init", "made", "failed", "file", "footer", "send", "sent", "end", "done"}
TypeOK ==
  /\ call \in Calls /\ step \in Steps /\ owner \in [Objects -> Owners]
  /\ frees \in [Objects -> Nat] /\ parts \in Nat /\ sent \in Nat

FreedOnce == \A o \in Objects : frees[o] = IF owner[o] = "freed" THEN 1 ELSE 0

(* What the function or its caller still has, by the step.                 *)
Request ==
  /\ step \in {"file", "footer", "sent"} => call = "send_http"
  /\ parts > 0 => call = "send_http"
  /\ step \in {"file", "footer"} => parts > 0
  /\ call = "send_http" =>
       /\ owner["request"] = IF step = "done" THEN "freed" ELSE "caller"
       /\ step = "init" => owner["compiled"] \in {"none", "call"}
       /\ step \in {"made", "file", "footer", "sent"} => owner["compiled"] = "call"
       /\ step = "send" => owner["compiled"] = IF parts = 0 THEN "reply" ELSE "call"
       /\ step \in {"end", "done"} => owner["compiled"] # "call"
String ==
  call = "send_string" =>
    (owner["header"] = "caller" <=> step \in {"init", "made", "failed"})
Pieces ==
  call # "reply" =>
    /\ step \in {"init", "made"} => owner["header"] \in {"none", "caller"}
    /\ step \in {"init", "made", "file"} => owner["file"] = "none"
    /\ step \in {"init", "made", "file", "footer"} => owner["footer"] = "none"
InHand ==
  /\ \A o \in Objects : owner[o] = "call" => call = "send_http" /\ o = "compiled"
  /\ \A o \in Objects : owner[o] = "reply" =>
       \/ step \in {"send", "file", "footer"}
       \/ step = "made" /\ call = "reply"

IInv == TypeOK /\ FreedOnce /\ Request /\ String /\ Pieces /\ InHand
=============================================================================
