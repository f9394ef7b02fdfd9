----------------------------- MODULE Responses -----------------------------
(***************************************************************************)
(* What the clients of the ohsome API can rely on: the answer to a request *)
(* is one status, for an extraction followed by all batches of its rows in *)
(* order, and it ends as a whole only after the last of them: an answer    *)
(* that lacks some is seen to be cut.                                      *)
(***************************************************************************)
EXTENDS Naturals, Sequences

CONSTANTS
    Requests,
    Extents       \* what there can be to send: sequences of positive numbers

VARIABLE answer     \* answer[r]: what the client of r has seen of its answer

ErrorStatus == {400, 422, 500, 504}

(* Of extent x there are batches <<i, j>> for i in 1..Len(x), j in 1..x[i]. *)
(* After the batches s comes the next of the same i, or the first of the   *)
(* next one.                                                               *)
After(x, s) ==
    IF s = <<>> THEN <<1, 1>>
    ELSE LET c == s[Len(s)]
         IN  IF c[2] < x[c[1]] THEN <<c[1], c[2] + 1>> ELSE <<c[1] + 1, 1>>

All(x, s) == s # <<>> /\ s[Len(s)] = <<Len(x), x[Len(x)]>>

Answer(s, x, c, e) == [status |-> s, extent |-> x, chunks |-> c, end |-> e]

Pending == Answer(0, <<>>, <<>>, "open")

Init == answer = [r \in Requests |-> Pending]

(* An answer in one piece: a result, or an error.                          *)
Reply(r) ==
    /\ answer[r] = Pending
    /\ \E s \in {200} \cup ErrorStatus :
          answer' = [answer EXCEPT ![r] = Answer(s, <<>>, <<>>, "whole")]

Start(r) ==
    /\ answer[r] = Pending
    /\ \E x \in Extents :
          answer' = [answer EXCEPT ![r] = Answer(200, x, <<>>, "open")]

Streams(r) == answer[r].status = 200 /\ answer[r].end = "open"

Send(r) ==
    /\ Streams(r) /\ ~All(answer[r].extent, answer[r].chunks)
    /\ answer' = [answer EXCEPT ![r].chunks =
          Append(@, After(answer[r].extent, @))]

Finish(r) ==
    /\ Streams(r) /\ All(answer[r].extent, answer[r].chunks)
    /\ answer' = [answer EXCEPT ![r].end = "whole"]

Cut(r) ==
    /\ Streams(r)
    /\ answer' = [answer EXCEPT ![r].end = "cut"]

Next == \E r \in Requests : Reply(r) \/ Start(r) \/ Send(r) \/ Finish(r) \/ Cut(r)

Spec == Init /\ [][Next]_answer
=============================================================================
