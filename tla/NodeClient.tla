----------------------------- MODULE NodeClient -----------------------------
(***************************************************************************)
(* The node web server (src/webservice-node/server): the routes of         *)
(* apps/api/index.coffee call VisorClient (nodeclient/visor-client.coffee) *)
(* which has one REQ socket for all of them.  The socket sends one message *)
(* at a time and keeps the others in the order of their sending.  Who      *)
(* waits for a reply does it by req_socket.once 'message', so that the     *)
(* next reply that arrives calls all who wait.                             *)
(***************************************************************************)
EXTENDS Integers, Sequences

CONSTANTS
  Routes,      \* the routes that are called; add_trs is VisorClient::download_trs
  MaxRequests  \* HTTP requests (bound)

ASSUME NodeAssumption ==
  /\ Routes \subseteq {"start_query", "add_trs", "train", "rank", "ranking", "free"}
  /\ MaxRequests \in Nat

VARIABLES
  requests,  \* requests[r]: the route of the r-th HTTP request
  sent,      \* sent[i]: the request for which message i was sent
  replied,   \* the number of messages that were replied to
  handlers,  \* the requests that wait for a message
  tagged,    \* the requests that have sent both set_tag and add_trs
  searching, \* the requests for which Google is asked
  answers,   \* answers[r]: what the HTTP request was answered with
  overlapped, \* a message was sent while another one was not replied to
  ended      \* an exception that nobody catches has ended the process

vars == <<requests, sent, replied, handlers, tagged, searching, answers,
          overlapped, ended>>

\* The message whose reply was taken for the answer, 0 if it was not a reply.
Answers == [message : Nat, success : BOOLEAN]

TypeOK ==
  /\ requests \in Seq(Routes) /\ Len(requests) <= MaxRequests
  /\ sent \in Seq(1..MaxRequests)
  /\ replied \in 0..Len(sent)
  /\ handlers \subseteq DOMAIN requests /\ tagged \subseteq DOMAIN requests
  /\ searching \subseteq DOMAIN requests
  /\ answers \in [1..MaxRequests -> Seq(Answers)]
  /\ overlapped \in BOOLEAN /\ ended \in BOOLEAN

Init ==
  /\ requests = <<>> /\ sent = <<>> /\ replied = 0
  /\ handlers = {} /\ tagged = {} /\ searching = {}
  /\ answers = [r \in 1..MaxRequests |-> <<>>]
  /\ overlapped = FALSE /\ ended = FALSE

\* req_socket.send for request r.
Send(r) ==
  /\ sent' = Append(sent, r)
  /\ overlapped' = (overlapped \/ replied < Len(sent))

Answer(rs, i, success) ==
  answers' = [r \in 1..MaxRequests |->
                IF r \in rs
                  THEN Append(answers[r], [message |-> i, success |-> success])
                  ELSE answers[r]]

-----------------------------------------------------------------------------
(* The routes *)

\* Fault: train forgets its handler.
AskAndForget(route) ==
  LET r == Len(requests) + 1 IN
  /\ r <= MaxRequests
  /\ requests' = Append(requests, route)
  /\ Send(r)
  /\ handlers' = IF route \in {"train", "rank", "free"} THEN handlers
                                                      ELSE handlers \cup {r}
  /\ UNCHANGED <<replied, tagged, searching, answers, ended>>

\* A route is called.  rank sets no handler and never calls back, and free calls
\* rank, with a callback in place of the flag "blocking".
Ask(route) ==
  LET r == Len(requests) + 1 IN
  /\ r <= MaxRequests
  /\ requests' = Append(requests, route)
  /\ Send(r)
  /\ handlers' = IF route \in {"rank", "free"} THEN handlers ELSE handlers \cup {r}
  /\ UNCHANGED <<replied, tagged, searching, answers, ended>>

\* The requests that wait for the reply to set_tag.
Tagging == {r \in handlers : requests[r] = "add_trs" /\ r \notin tagged}

\* Fault: the handlers stay where they are.
ReplyAndStay(success) ==
  LET searches == IF success THEN Tagging ELSE {} IN
  /\ replied < Len(sent) /\ replied' = replied + 1
  /\ Answer(handlers \ searches, replied', success)
  /\ searching' = searching \cup searches
  /\ UNCHANGED <<requests, sent, handlers, tagged, overlapped, ended>>

\* Fault: the reply to set_tag is taken for the last one.
ReplyToTag(success) ==
  /\ replied < Len(sent) /\ replied' = replied + 1
  /\ Answer(handlers, replied', success)
  /\ searching' = IF success THEN searching \cup Tagging ELSE searching
  /\ handlers' = {}
  /\ UNCHANGED <<requests, sent, tagged, overlapped, ended>>

\* A reply arrives and all handlers are called with it, whatever they wait for.
Reply(success) ==
  LET searches == IF success THEN Tagging ELSE {} IN
  /\ replied < Len(sent) /\ replied' = replied + 1
  /\ Answer(handlers \ searches, replied', success)
  /\ searching' = searching \cup searches
  /\ handlers' = {}
  /\ UNCHANGED <<requests, sent, tagged, overlapped, ended>>

-----------------------------------------------------------------------------
(* GoogleSearcher *)

Found(r) ==
  /\ r \in searching /\ searching' = searching \ {r}
  /\ Send(r)
  /\ handlers' = handlers \cup {r}
  /\ tagged' = tagged \cup {r}
  /\ UNCHANGED <<requests, replied, answers, ended>>

\* The error is passed on, and then the missing results are looked at.
NotFound(r) ==
  /\ r \in searching /\ searching' = searching \ {r}
  /\ Answer({r}, 0, FALSE)
  /\ ended' = TRUE
  /\ UNCHANGED <<requests, sent, replied, handlers, tagged, overlapped>>

-----------------------------------------------------------------------------
\* VisorNotifier throws when it is sent an error, as in Notifications.
ErrorNotified ==
  /\ ended' = TRUE
  /\ UNCHANGED <<requests, sent, replied, handlers, tagged, searching, answers,
                 overlapped>>

Next ==
  /\ ~ended
  /\ \/ \E route \in Routes : Ask(route)
     \/ \E success \in BOOLEAN : Reply(success)
     \/ \E r \in searching : Found(r) \/ NotFound(r)
     \/ ErrorNotified

Spec == Init /\ [][Next]_vars

\* The server replies to every request (Replies of QueryServer).  A search may take
\* for ever: nobody handles the end of its timeout.
FairSpec == Spec /\ WF_vars(~ended /\ \E success \in BOOLEAN : Reply(success))

-----------------------------------------------------------------------------
(* Properties *)

\* No HTTP request is answered twice, which would be an error of its own: a search
\* that fails calls back and goes on, and handlers are called for any message.
AnsweredOnce == \A r \in 1..MaxRequests : Len(answers[r]) <= 1

Answered(r, i) == \E k \in DOMAIN answers[r] : answers[r][k].message = i

\* As long as no message is sent before the last one was replied to, every request
\* is answered by its own reply, add_trs by that to the second of its messages.
\* That needs a client that waits, also for the replies to rank and free, which
\* nobody sees.
OwnReplyUnlessOverlapped ==
  ~overlapped =>
    \A r \in DOMAIN requests : \A i \in DOMAIN sent :
      Answered(r, i) =>
        /\ sent[i] = r
        /\ requests[r] = "add_trs" => r \in tagged \/ ~answers[r][1].success

\* However requests overlap, none is answered by a reply to a message that was sent
\* after its own: what a request is told may be old, but was never unasked for.
NeverLaterReply ==
  \A r \in DOMAIN requests : \A i \in DOMAIN sent :
    Answered(r, i) => \E j \in DOMAIN sent : sent[j] = r /\ i <= j

\* Every request of a route with a handler is answered, though maybe by the reply to
\* another one, unless Google keeps it waiting or the process ends.
AnsweredAtLast ==
  \A r \in 1..MaxRequests :
    []<>(\/ r \notin DOMAIN requests \/ requests[r] \in {"rank", "free"}
         \/ answers[r] # <<>> \/ r \in searching \/ ended)

\* index.coffee:54, 64, res.json: every route answers.
EveryRouteAnswers ==
  \A r \in 1..MaxRequests :
    []<>(r \notin DOMAIN requests \/ answers[r] # <<>> \/ r \in searching \/ ended)

\* index.coffee:39, the id of a query is given to one page.
OwnQuery ==
  \A r1, r2 \in DOMAIN requests : \A i \in DOMAIN sent :
    /\ requests[r1] = "start_query" /\ requests[r2] = "start_query"
    /\ Answered(r1, i) /\ Answered(r2, i)
    => r1 = r2
=============================================================================
