------------------------------- MODULE Requests -------------------------------
(***************************************************************************)
(* The requests of one client of the DialMessenger plugin: plugin_main()   *)
(* of plugins/dialmsn, called with what has come and was not consumed.  A  *)
(* packet is a header and its parameters, a word each; a message ends with *)
(* a word of its own, and only a message waits for its end.  The client    *)
(* sends one stream of packets and the network cuts it anywhere.  What     *)
(* the plugin does once a flush has thrown away a part of another packet   *)
(* (it reads parameters as headers) is not modelled: `spoilt'.             *)
(***************************************************************************)
EXTENDS Integers, SequencesExt

CONSTANTS
  Kinds,      (* bound: the kinds of packets sent, of DOMAIN Shape         *)
  MaxPackets  (* bound: of packets sent                                    *)

VARIABLES
  stream,     (* what has not come: words [n, w], n the number of a packet *)
  buffer,     (* what has come and was not consumed                        *)
  running,    (* plugin_main() has been called and has not returned        *)
  logged,     (* the session has a user                                    *)
  allow,      (* _userlist_allow                                           *)
  lists,      (* lists on their way to the client                          *)
  handled,    (* the packets handled, in order                             *)
  closed, spoilt

vars == <<stream, buffer, running, logged, allow, lists, handled, closed, spoilt>>

Shape == [list |-> <<"LIST">>, friends |-> <<"FRIENDS">>, mail |-> <<"MAIL">>, add |-> <<"ADD", "user">>,
          grant |-> <<"GRANT", "uid", "sid">>, status |-> <<"STATUS", "status">>,
          call |-> <<"CALL", "param", "caller", "callee", "port">>,
          refresh |-> <<"REFRESH", "uid", "changes">>, host |-> <<"HOST", "uid">>,
          auth |-> <<"AUTH", "text">>, account |-> <<"ACCOUNT", "text">>,
          mesg |-> <<"MESG", "sid", "text", "term">>]
Size == [w \in {Shape[k][1] : k \in DOMAIN Shape} |->
           LET k == CHOOSE k \in DOMAIN Shape : Shape[k][1] = w IN Len(Shape[k])]

Packet(n, kind) == [i \in DOMAIN Shape[kind] |-> [n |-> n, w |-> Shape[kind][i]]]

Init ==
  /\ stream = <<>> /\ buffer = <<>> /\ running = FALSE
  /\ logged \in BOOLEAN /\ allow = TRUE /\ lists = 0
  /\ handled = <<>> /\ closed = FALSE /\ spoilt = FALSE

(* The client sends its packets before the first of them comes: one that   *)
(* it sends later could as well have been on its way.                      *)
Send(kind) ==
  LET n == IF stream = <<>> THEN 1 ELSE Last(stream).n + 1 IN
  /\ ~ running /\ buffer = <<>> /\ handled = <<>> /\ n <= MaxPackets
  /\ stream' = stream \o Packet(n, kind)
  /\ UNCHANGED <<buffer, running, logged, allow, lists, handled, closed, spoilt>>

(* The buffer of the socket is given again with what comes.                *)
Arrive(n) ==
  /\ ~ running /\ ~ closed /\ ~ spoilt /\ n \in 1 .. Len(stream)
  /\ buffer' = buffer \o SubSeq(stream, 1, n)
  /\ stream' = SubSeq(stream, n + 1, Len(stream))
  /\ running' = TRUE
  /\ UNCHANGED <<logged, allow, lists, handled, closed, spoilt>>

Header == Head(buffer).w
On(ws) == running /\ ~ spoilt /\ ~ closed /\ buffer # <<>> /\ Header \in ws

(* The first n words are one packet and all of it.                         *)
Whole(n) ==
  /\ n = Size[Header] /\ \A i \in 1 .. n : buffer[i].n = buffer[1].n
Consume(n) ==
  /\ buffer' = SubSeq(buffer, n + 1, Len(buffer))
  /\ handled' = Append(handled, Head(buffer).n)
  /\ spoilt' = ~ Whole(n)
Flush == Consume(Len(buffer))

Ready == Header = "MESG" => \E i \in DOMAIN buffer : buffer[i].w = "term"
Return_Early ==                   \* mutant: one packet a call
  /\ running /\ ~ spoilt /\ ~ closed /\ handled # <<>>
  /\ running' = FALSE
  /\ UNCHANGED <<stream, buffer, logged, allow, lists, handled, closed, spoilt>>

Return ==
  /\ running /\ ~ spoilt /\ ~ closed /\ (buffer # <<>> => ~ Ready)
  /\ running' = FALSE
  /\ UNCHANGED <<stream, buffer, logged, allow, lists, handled, closed, spoilt>>

(* dialmsn_user_checkrequest(): who has not logged in may do little.       *)
Refused == ~ logged /\ Header \notin {"AUTH", "ACCOUNT", "REFRESH", "HOST"}
Abort ==
  /\ closed' = TRUE /\ Flush /\ UNCHANGED <<stream, running, logged, allow, lists>>
Refuse == On(DOMAIN Size) /\ Ready /\ Refused /\ Abort

Missing == Len(buffer) < Size[Header]

(* All that came with it is taken for the login.                           *)
Auth ==
  /\ On({"AUTH"})
  /\ \/ ~ Missing /\ logged' \in {TRUE, logged}
        /\ closed' \in BOOLEAN /\ (logged' # logged => ~ closed')
        /\ Flush /\ UNCHANGED <<stream, running, allow, lists>>
     \/ Abort

(* The list kept for the clients is sent, or an error.                     *)
GetConnected == lists' \in {lists, lists + 1}

(* One list at a time: until the one before has been transmitted.          *)
List ==
  /\ On({"LIST"}) /\ ~ Refused /\ Consume(1)
  /\ allow' = FALSE
  /\ IF allow THEN GetConnected ELSE UNCHANGED lists
  /\ UNCHANGED <<stream, running, logged, closed>>

(* The users she likes or blocks, or an error: it is a list of the         *)
(* database, and any number of them may be asked for.                      *)
GetMisc ==
  /\ On({"FRIENDS"}) /\ ~ Refused /\ Consume(1)
  /\ UNCHANGED <<stream, running, logged, allow, lists, closed>>

Transmitted ==
  /\ lists > 0 /\ ~ running /\ ~ spoilt
  /\ lists' = lists - 1 /\ allow' = TRUE
  /\ UNCHANGED <<stream, buffer, running, logged, handled, closed, spoilt>>

(* A parameter is missing: the error throws all away.                      *)
Params(ws) ==
  /\ On(ws) /\ ~ Refused
  /\ IF Missing THEN Flush ELSE Consume(Size[Header])
  /\ UNCHANGED <<stream, logged, allow, lists, closed>>
ListUser == Params({"ADD"}) /\ UNCHANGED running
Info == Params({"GRANT"}) /\ UNCHANGED running
Exec ==
  \/ Params({"STATUS", "CALL"}) /\ UNCHANGED running
  \/ Params({"REFRESH"}) /\ running' = ~ Missing
HostOnline ==
  /\ On({"HOST"}) /\ Consume(IF Missing THEN 1 ELSE 2)
  /\ UNCHANGED <<stream, running, logged, allow, lists, closed>>
Account ==
  /\ On({"ACCOUNT"})
  /\ Flush /\ running' = FALSE /\ closed' \in BOOLEAN
  /\ UNCHANGED <<stream, logged, allow, lists>>

(* The query may fail.                                                     *)
Mail ==
  /\ On({"MAIL"}) /\ ~ Refused
  /\ \/ Consume(1) /\ UNCHANGED running
     \/ Flush /\ running' = FALSE
  /\ UNCHANGED <<stream, logged, allow, lists, closed>>

(* The recipient is away, or the message is not for free: all is thrown    *)
(* away; else the text up to the end is sent on.                           *)
Ends(n) == buffer[n].w = "term" /\ \A i \in 1 .. n - 1 : buffer[i].w # "term"
Mesg ==
  /\ On({"MESG"}) /\ Ready /\ ~ Refused
  /\ Flush \/ \E n \in DOMAIN buffer : Ends(n) /\ Consume(n)
  /\ UNCHANGED <<stream, running, logged, allow, lists, closed>>

Next ==
  \/ \E kind \in Kinds : Send(kind)
  \/ \E n \in 1 .. Len(stream) : Arrive(n)
  \/ Return \/ Refuse \/ Auth \/ List \/ GetMisc \/ Transmitted \/ ListUser \/ Info \/ Exec
  \/ HostOnline \/ Account \/ Mail \/ Mesg

Spec == Init /\ [][Next]_vars

-----------------------------------------------------------------------------
(* Unless a flush took a part of another packet, the packets are handled   *)
(* once, in order, and what remains begins with the next one.              *)
InTurn ==
  ~ spoilt =>
    /\ \A i \in DOMAIN handled : handled[i] = i
    /\ \A rest \in {buffer \o stream} : rest # <<>> =>
         rest[1].n = Len(handled) + 1 /\ rest[1].w \in DOMAIN Size

(* Only a message that has not ended is left for later.                    *)
NothingWaits ==
  (~ running /\ ~ spoilt /\ ~ closed /\ buffer # <<>>) =>
     Header = "MESG" /\ \A i \in DOMAIN buffer : buffer[i].n = buffer[1].n

(* At most one list is on its way, and then no other is given.             *)
OneList == lists <= 1 /\ (allow => lists = 0)

RequestsSafe == InTurn /\ NothingWaits /\ OneList

-----------------------------------------------------------------------------
(* The inductive invariant.                                                *)
Words == UNION {Range(Shape[k]) : k \in DOMAIN Shape}
Word == [n : Nat, w : Words]
TypeOK ==
  /\ stream \in Seq(Word) /\ buffer \in Seq(Word) /\ handled \in Seq(Nat) /\ lists \in Nat
  /\ running \in BOOLEAN /\ logged \in BOOLEAN /\ allow \in BOOLEAN
  /\ closed \in BOOLEAN /\ spoilt \in BOOLEAN

(* The words s are whole packets that follow one another from number k + 1.*)
Starts(s, i) == s[i].w \in DOMAIN Size
Follows(s, i) ==
  LET end == i + Size[s[i].w] - 1 IN
  /\ end <= Len(s) /\ \A j \in i .. end : s[j].n = s[i].n
  /\ s[i].w = "MESG" => s[i + 3].w = "term"
  /\ end < Len(s) => Starts(s, end + 1) /\ s[end + 1].n = s[i].n + 1
Framed(s, k) ==
  /\ s # <<>> => Starts(s, 1) /\ s[1].n = k + 1
  /\ \A i \in DOMAIN s : Starts(s, i) => Follows(s, i)

IInv ==
  /\ TypeOK /\ RequestsSafe
  /\ ~ spoilt => Framed(buffer \o stream, Len(handled))
=============================================================================
