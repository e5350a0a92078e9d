------------------------ MODULE MCNotificationService ------------------------
(* Instances of NotificationService: the events of a ticket and of a task, and  *)
(* events of unrelated objects.                                                 *)
EXTENDS NotificationService, TLC

CONSTANTS e1, e2, e3, e4, o1, o2, o3

\* Each event is about an object of its own.
ApartOf == e1 :> o1 @@ e2 :> o2 @@ e3 :> o3
ApartKind == e1 :> "creation" @@ e2 :> "creation" @@ e3 :> "change"
ApartType == o1 :> "other" @@ o2 :> "other" @@ o3 :> "other"

\* A ticket is created, changed and moved to another stage.
TicketOf == e1 :> o1 @@ e2 :> o1 @@ e3 :> o1
TicketKind == e1 :> "creation" @@ e2 :> "change" @@ e3 :> "stage"
TicketType == o1 :> "ticket"

\* A ticket and a task, each created and changed.
PairsOf == e1 :> o1 @@ e2 :> o1 @@ e3 :> o2 @@ e4 :> o2
PairsKind == e1 :> "creation" @@ e2 :> "change" @@ e3 :> "creation" @@ e4 :> "stage"
PairsType == o1 :> "ticket" @@ o2 :> "task"

\* A task and a ticket that closes.
MixedOf == e1 :> o1 @@ e2 :> o2 @@ e3 :> o2
MixedKind == e1 :> "creation" @@ e2 :> "creation" @@ e3 :> "stage"
MixedType == o1 :> "task" @@ o2 :> "ticket"
=============================================================================
