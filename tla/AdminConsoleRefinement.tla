----------------------- MODULE AdminConsoleRefinement -----------------------
(***************************************************************************)
(* AdminConsole works with AnnouncementStore: what a page's action or a    *)
(* form's save does to an announcement is what it does to the standing of  *)
(* its latest revision.                                                    *)
(***************************************************************************)
EXTENDS AdminConsole

Store == INSTANCE AnnouncementStore WITH
    standing <- [i \in Ids |-> IF Exists(i) THEN Current(i) ELSE Null]

ASSUME NullIsNoStanding == Null \notin Standing

\* The rows under the pages change as the store lets them, whatever the pages
\* still show and however many of them act on one announcement.
WorksWithStore == Store!Spec

=============================================================================
