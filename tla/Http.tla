-------------------------------- MODULE Http --------------------------------
(***************************************************************************)
(* The HTTP support of the library (m_http.c): how the bytes read from a   *)
(* connection are cut into requests and given to the plugin, whatever the  *)
(* segments they come in.                                                  *)
(*                                                                         *)
(* The stream is a sequence of symbols: "line", the text of a header up to *)
(* its empty line, with the length of the body it announces; "blank", that *)
(* empty line; "byte", a unit of a body; "word", a unit of a body that     *)
(* holds the text HTTP.  The worker reads a segment and calls              *)
(* http_get_request until it answers NULL (_server_receive).               *)
(*                                                                         *)
(* Left out: chunked bodies, malformed headers, allocation failures.       *)
(***************************************************************************)
EXTENDS Integers, FiniteSets, SequencesExt

CONSTANTS
    Streams,   \* the streams a client may send: sequences of bodies
    Large,     \* length from which a body is streamed (more than 50 bytes)
    CutAll,    \* segments may also end inside a small body
    MaxGiven,  \* bound on the number of pieces given to the plugin
    None

VARIABLES
    stream,    \* what the client sends
    sent,      \* number of symbols it has sent
    frag,      \* _frag of the connection: a request that waits, or None
    input,     \* what the worker looks at, or None between two segments
    r,         \* the state of http_get_request
    given      \* the pieces of bodies the plugin was given
vars == <<stream, sent, frag, input, r, given>>

-----------------------------------------------------------------------------
\* The stream of the bodies; a body is a sequence of "byte" and "word".
Message(body, i) ==
    <<[k |-> "line", n |-> Len(body), i |-> i], [k |-> "blank", n |-> 0, i |-> i]>>
        \o [j \in 1..Len(body) |-> [k |-> body[j], n |-> j, i |-> i]]
Wire(bodies) == FlattenSeq([i \in 1..Len(bodies) |-> Message(bodies[i], i)])
Wanted == SelectSeq(Wire(stream), LAMBDA x : x.k \in {"byte", "word"})
IsSmall(i) == Len(stream[i]) < Large
Junk == [k |-> "junk", n |-> 0, i |-> 0]

\* A buffer or a token of one: its text and, once _http_valid has split it,
\* its body, the body bytes counted, and its flags.  "own" is what the token
\* itself covers of its body, the rest was annexed from the next tokens.
Text(s) == [text |-> s, split |-> FALSE, body |-> <<>>, own |-> 0, prog |-> 0,
            http |-> FALSE, large |-> FALSE, streamed |-> FALSE]
Starts(s) == {p \in 1..Len(s) : s[p].k \in {"line", "word"}}  \* "HTTP" found

\* What string_cat does to a buffer: the last token grows with it.
Append2(q, s) == [q EXCEPT !.text = @ \o s, !.body = IF q.split THEN @ \o s ELSE @,
                           !.own = IF q.split THEN @ + Len(s) ELSE @]
Progress(q, n) == IF q.split THEN [q EXCEPT !.prog = @ + n] ELSE q

\* string_dup keeps the tokens and drops the flags; a body longer than its
\* own text is followed by what was in memory.
Duplicate(q) ==
    [q EXCEPT !.http = FALSE, !.large = FALSE, !.streamed = FALSE,
              !.body = [j \in 1..Len(q.body) |-> IF j <= q.own THEN q.body[j] ELSE Junk]]

\* http_get_contentlength: a request without the HTTP flag has none.
ContentLength(q) == IF q.http THEN q.text[1].n ELSE 0

\* _http_valid, on a request that is split.
Checked(q) ==
    LET n == ContentLength(q) IN
    IF n = 0 THEN <<1, q>>
    ELSE <<IF q.prog < n THEN -2 ELSE 1, [q EXCEPT !.large = @ \/ n >= Large]>>

\* _http_valid: its answer and what it makes of the request.
Valid(q) ==
    LET ends == {p \in 1..Len(q.text) : q.text[p].k = "blank"} IN
    IF q.split THEN Checked(q)
    ELSE IF q.text = <<>> THEN <<-1, q>>
    ELSE IF q.text[1].k \notin {"line", "word"} THEN <<0, q>>
    ELSE IF ends = {} THEN <<-1, q>>
    ELSE LET p    == CHOOSE x \in ends : \A y \in ends : x <= y
             body == SubSeq(q.text, p + 1, Len(q.text))
         IN  Checked([q EXCEPT !.split = TRUE, !.body = body, !.own = Len(body),
                               !.prog = Len(body), !.http = TRUE])

\* _http_split_pipeline: a token begins wherever the text HTTP is found.
Tokens(s, starts) ==
    [j \in 1..Cardinality(starts) |->
        LET nth(m) == CHOOSE p \in starts : Cardinality({x \in starts : x < p}) = m - 1
        IN  Text(SubSeq(s, nth(j), IF j = Cardinality(starts) THEN Len(s)
                                   ELSE nth(j + 1) - 1))]

\* _http_split_pipeline: the data before the first request belongs to the one
\* that waits.  It is appended to a buffer without being counted; a streamed
\* request grows by it.  Answers the buffer, the tokens and *http.
SplitPipeline ==
    LET s     == input.rest
        found == Starts(s)
        first == IF found = {} THEN Len(s)
                 ELSE (CHOOSE p \in found : \A x \in found : p <= x) - 1
        lead  == SubSeq(s, 1, first)
    IN  IF input.toks # <<>>     \* streaming: the request is token 1
        THEN [frag |-> frag, r |-> 1, rest |-> <<>>,
              toks |-> <<Progress([Append2(input.toks[1], lead) EXCEPT
                                       !.http = TRUE, !.streamed = TRUE], first)>>
                           \o Tokens(s, found)]
        ELSE IF found = {}
        THEN [frag |-> frag, r |-> 0, rest |-> s, toks |-> <<>>]
        ELSE [frag |-> IF lead = <<>> THEN frag
                       ELSE IF frag = None THEN Text(lead) ELSE Append2(frag, lead),
              r |-> 1, rest |-> <<>>, toks |-> Tokens(s, found)]

-----------------------------------------------------------------------------
Init ==
    /\ stream \in Streams /\ sent = 0
    /\ frag = None /\ input = None /\ r = 0 /\ given = <<>>

\* A segment ends where the client and the network will: between two messages,
\* in a header or in a streamed body, and if CutAll in a small body, too.  A
\* message whose body holds the text HTTP comes in one segment.
MayCut(p) ==
    LET w == Wire(stream) IN
    \/ p = Len(w)
    \/ w[p + 1].k = "line"
    \/ /\ "word" \notin Range(stream[w[p].i])
       /\ CutAll \/ w[p].k = "line" \/ ~IsSmall(w[p].i)

\* _server_receive reads a segment, into the buffer of the worker or behind
\* the request that is streamed.
Receive ==
    /\ input = None
    /\ \E p \in {q \in sent + 1..Len(Wire(stream)) : MayCut(q)} :
        /\ sent' = p
        /\ LET s == SubSeq(Wire(stream), sent + 1, p) IN
           IF frag # None /\ frag.large
           THEN input' = [toks |-> <<frag>>, rest |-> s] /\ frag' = None
           ELSE input' = [toks |-> <<>>, rest |-> s] /\ UNCHANGED frag
    /\ r' = 0
    /\ UNCHANGED <<stream, given>>

\* http_get_request answers NULL: the worker is done with the segment.
Nothing(buf) == frag' = buf /\ input' = None /\ r' = 0 /\ UNCHANGED given
\* It answers a body; the plugin reads it and flushes it.
Flushed(q) == [q EXCEPT !.body = <<>>, !.own = 0]
Give(body, buf, toks, rest, state) ==
    /\ given' = Append(given, body)
    /\ frag' = buf /\ input' = [toks |-> toks, rest |-> rest] /\ r' = state

\* A mutant: what is taken from the pipeline is not counted.
Annex_Uncounted(toks, n) ==
    LET take[m \in n..Len(toks)] ==
            IF m = n THEN <<Valid(toks[n])[2], Valid(toks[n])[1]>>
            ELSE LET was == take[m - 1] IN
                 IF was[2] = 1 THEN was
                 ELSE LET got == [was[1] EXCEPT !.body = @ \o toks[m].text]
                      IN  <<Valid(got)[2], Valid(got)[1]>>
        whole == {m \in n..Len(toks) : take[m][2] = 1}
        last  == IF whole = {} THEN Len(toks)
                 ELSE CHOOSE m \in whole : \A x \in whole : m <= x
    IN  [req |-> take[last][1], last |-> last, verdict |-> take[last][2]]

\* A starved or incomplete request takes what follows it in the pipeline,
\* until it is whole; answers the request, the next token and the verdict.
Annex(toks, n) ==
    LET take[m \in n..Len(toks)] ==
            IF m = n THEN <<Valid(toks[n])[2], Valid(toks[n])[1]>>
            ELSE LET was == take[m - 1] IN
                 IF was[2] = 1 THEN was
                 ELSE LET more == toks[m].text
                          got  == [Progress(was[1], Len(more)) EXCEPT !.body = @ \o more]
                      IN  <<Valid(got)[2], Valid(got)[1]>>
        whole == {m \in n..Len(toks) : take[m][2] = 1}
        last  == IF whole = {} THEN Len(toks)
                 ELSE CHOOSE m \in whole : \A x \in whole : m <= x
    IN  [req |-> take[last][1], last |-> last, verdict |-> take[last][2]]

\* The waiting request is looked at first; if it is not whole, it takes all of
\* the segment (its progress is counted only if its header is known).
GetWaiting(buf, toks, rest, state) ==
    LET seen == Valid(buf)
        all  == rest \o FlattenSeq([j \in 1..Len(toks) |-> toks[j].text])
        more == Valid(Progress(Append2(seen[2], all), Len(all)))
    IN  IF seen[1] > -1
        THEN Give(IF seen[1] = 1 THEN seen[2].body ELSE seen[2].text,
                  Flushed(seen[2]), toks, rest, state)
        ELSE CASE more[1] = 1 -> Give(more[2].body, Flushed(more[2]), toks, rest, -1)
               [] more[1] = -2 /\ more[2].large ->
                    Give(more[2].body, Flushed(more[2]), toks, rest, Len(toks) + 1)
               [] OTHER -> Nothing(more[2])

\* The request at the head of the pipeline.
GetToken(toks, n) ==
    LET a   == Annex(toks, n)
        new == [toks EXCEPT ![n] = Flushed(a.req)]
    IN  CASE a.verdict > -1 -> Give(IF a.verdict = 1 THEN a.req.body ELSE a.req.text,
                                    None, new, <<>>, a.last + 1)
          [] a.verdict = -2 /\ a.req.streamed -> Give(a.req.body, None, <<new[n]>>, <<>>, -2)
          [] a.verdict = -2 /\ ~a.req.streamed ->
                Nothing([Duplicate(a.req) EXCEPT !.large = a.req.large])
          [] OTHER -> Nothing(Duplicate(a.req))

\* http_get_request: one call.
Get ==
    /\ input # None /\ Len(given) < MaxGiven
    /\ UNCHANGED <<stream, sent>>
    /\ LET s == IF r = 0 THEN SplitPipeline
                ELSE [frag |-> IF r > 0 THEN None ELSE frag, r |-> r,
                      toks |-> input.toks, rest |-> input.rest]
       IN  CASE r = -2 -> Nothing(input.toks[1])
             [] r = -1 -> Nothing(None)
             [] r > Len(input.toks) ->
                  Nothing(IF input.toks # <<>> /\ input.toks[1].streamed THEN None ELSE frag)
             [] OTHER -> IF s.frag # None THEN GetWaiting(s.frag, s.toks, s.rest, s.r)
                         ELSE IF s.r > 0 THEN GetToken(s.toks, s.r)
                         ELSE Give(s.rest, None, <<>>, s.rest, 1)

Next == Receive \/ Get
Spec == Init /\ [][Next]_vars

-----------------------------------------------------------------------------
\* The plugin is given the bodies in order, without a hole, a repetition or a
\* byte of anything else, in one piece each unless it is streamed, and when
\* all was received nothing is missing (http_get_request, _server_receive).
HttpSafe ==
    /\ IsPrefix(FlattenSeq(given), Wanted)
    /\ \A j \in 1..Len(given) : given[j] # <<>> =>
          LET i == given[j][1].i IN
          IsSmall(i) => Len(given[j]) = Len(stream[i])
    /\ input = None /\ sent = Len(Wire(stream)) => FlattenSeq(given) = Wanted
    /\ Len(given) < MaxGiven

=============================================================================
