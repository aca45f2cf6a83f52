---------------------------- MODULE MCHeartbeat ----------------------------
(* Two users start and stop daemons beside each other, one of which may beat *)
(* beside another; or give commands on the notifications beside a daemon.    *)
EXTENDS Heartbeat

Counts(start, stop, refresh, dispatch, acknowledge, notification, trouble) ==
  [start |-> start, stop |-> stop, refresh |-> refresh, dispatch |-> dispatch,
   acknowledge |-> acknowledge, notification |-> notification, trouble |-> trouble]

Agendas == {Counts(2, 1, 0, 0, 0, 1, 0), Counts(2, 1, 0, 0, 0, 0, 1),
            Counts(1, 0, 0, 1, 1, 1, 0), Counts(1, 0, 0, 1, 0, 1, 1),
            Counts(1, 0, 0, 0, 0, 2, 1), Counts(0, 0, 1, 0, 1, 2, 1),
            Counts(0, 0, 2, 1, 0, 1, 1), Counts(0, 0, 1, 1, 1, 1, 1)}
=============================================================================
