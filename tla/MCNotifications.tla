-------------------------- MODULE MCNotifications --------------------------
(* Definitions for the configuration of Notifications. *)
EXTENDS Notifications

\* Once two sends have overlapped anything may arrive, and no property depends on what
\* did; nor on what comes after the process has ended.
Present ==
  CASE terminated   -> <<overlapped, SocketStoredFirst, OneSubscriber>>
    [] overlapped   -> <<server_vars, log, queue, sub_count, reader_vars, subscribed,
                         running>>
    [] OTHER        -> vars
=============================================================================
