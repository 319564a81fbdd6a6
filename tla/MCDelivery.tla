------------------------------ MODULE MCDelivery ------------------------------
(***************************************************************************)
(* How a solo sends to its chain, of which a behaviour shows one of two    *)
(* parts: the queues of helper processes that every call goes through, and *)
(* the exchange of a solo with its chain from end to end.  They share no   *)
(* state here.                                                             *)
(***************************************************************************)
EXTENDS MCHelperQueue, MailboxExchange

VARIABLE part

queueVars == <<vars, name>>

\* What can start in several states has one where it is not shown.
DeliveryInit ==
    /\ part \in {"queue", "exchange"}
    /\ MCInit /\ ExchangeInit
    /\ part # "queue" => name = "deliver"
    /\ part # "exchange" => ~harsh

DeliveryNext ==
    /\ \/ part = "queue" /\ MCNext /\ UNCHANGED exchangeVars
       \/ part = "exchange" /\ ExchangeNext /\ UNCHANGED queueVars
    /\ UNCHANGED part

\* The fairness of MCHelperQueue and of MailboxExchange, each in its part.
DeliverySpec ==
    /\ DeliveryInit
    /\ [][DeliveryNext]_<<part, queueVars, exchangeVars>>
    /\ SF_vars(part = "queue" /\ SomeHelperSucceeds)
    /\ \A c \in Calls :
         /\ WF_vars(part = "queue" /\ (GiveUp(c) \/ RunHelper(c)))
         /\ WF_vars(/\ part = "queue"
                    /\ HelperExitsCancelled(c) \/ HelperSucceeds(c) \/ HelperFails(c))
         /\ WF_vars(part = "queue" /\ Retry(c))
    /\ WF_exchangeVars(part = "exchange" /\ JoinQueue)
    /\ WF_exchangeVars(part = "exchange" /\ SendTx)
    /\ WF_exchangeVars(part = "exchange" /\ HelperReturns)
    /\ WF_exchangeVars(part = "exchange" /\ Block)
    /\ WF_exchangeVars(part = "exchange" /\ ReadMailbox)

=============================================================================
