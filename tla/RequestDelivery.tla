--------------------------- MODULE RequestDelivery ---------------------------
(***************************************************************************)
(* What the client gets of the tokens that the generator reads from        *)
(* llama-server.                                                           *)
(***************************************************************************)
EXTENDS RequestManager

\* The Token messages on the wire for request g, and the tokens in them.
TokenMessages(g) == {i \in DOMAIN wire : wire[i].type = "Token" /\ wire[i].id = reqId[g]}
Got(g) == UNION {{wire[i].text[k] : k \in DOMAIN wire[i].text} : i \in TokenMessages(g)}

\* A token that comes later in the same message, or in a later one, has the
\* greater number.
Ascending(g) ==
  \A i, j \in TokenMessages(g) :
    \A k \in DOMAIN wire[i].text, l \in DOMAIN wire[j].text :
      i < j \/ (i = j /\ k < l) => wire[i].text[k] < wire[j].text[l]

\* The first n tokens of request g have reached the wire: none is skipped, none
\* comes twice or out of its order.
Delivered(g, n) == Got(g) = 1..n /\ Ascending(g)

\* What the engine holds for request g are the tokens that come after n.
Holds(g, n) ==
  /\ n + Len(buf[g]) <= gen[g].made
  /\ buf[g] = [k \in 1..Len(buf[g]) |-> n + k]

\* The tokens of a request reach the client in the order llama-server sent them,
\* each once, none skipped, across flushes by tick, cancellation and close;
\* what the engine still holds comes next.
TokensInOrder ==
  \A g \in Gens : pc[g] # "none" =>
    \E n \in 0..gen[g].made : Delivered(g, n) /\ (conn = "open" => Holds(g, n))

\* A request that ends with Done, sent to a client that is there, has delivered
\* every token llama-server sent.
AnswerComplete ==
  \A g \in Gens :
    pc[g] \in {"release", "exit"} /\ verdict[g] = "answered" /\ conn = "open" =>
      Delivered(g, gen[g].made)

=============================================================================
