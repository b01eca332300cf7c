------------------------------ MODULE MCActions ------------------------------
(* The elements of the templates that nest actions in each other, as one    *)
(* page: a row of the lesson list (portal/student_lessons.html:37-78) with  *)
(* its date link, the cell that stops the row, the link into the meeting,   *)
(* the form that cancels a lesson and the button that opens the dialog for  *)
(* a series; that dialog (97-112); an hour of the calendar with a lesson    *)
(* and its edit link, and a blocked time that is a preview                  *)
(* (lessons/week.html:96-215); a tier of the institute form                 *)
(* (institute_form.html:127-140); the language menu (core/base.html:599);   *)
(* the link back (portal/reschedule.html:52) and the referral link to copy  *)
(* (core/settings.html).                                                    *)
EXTENDS Actions, TLC

MCPath == [n \in Nodes |->
    CASE n \in {"dateLink", "stopCell"}                  -> <<n, "row">>
      [] n \in {"joinLink", "cancelButton", "seriesButton"} -> <<n, "stopCell", "row">>
      [] n = "editLink"                                  -> <<n, "lesson", "slot">>
      [] n \in {"lesson", "blocked"}                     -> <<n, "slot">>
      [] n = "tierButton"                                -> <<n, "tier">>
      [] OTHER                                           -> <<n>>]

MCNodes == {"row", "dateLink", "stopCell", "joinLink", "cancelButton", "seriesButton",
            "dialogClose", "dialogSubmit", "slot", "lesson", "editLink", "blocked",
            "tier", "tierButton", "language", "back", "recurring", "copyButton"}
MCForms == {"cancelForm", "singleForm", "languageForm"}
MCPlaces == {"lessonPage", "meeting", "editPage", "home"}

MCAttrs == [n \in Nodes |->
    CASE n \in {"row", "lesson"}                  -> {"href"}
      [] n \in {"stopCell", "editLink"}           -> {"stop"}
      [] n \in {"seriesButton", "slot"}           -> {"click"}
      [] n = "dialogClose"                        -> {"close"}
      [] n = "tierButton"                         -> {"remove"}
      [] n = "back"                               -> {"history"}
      [] n = "copyButton"                         -> {"copy"}
      [] OTHER                                    -> {}]
(* openCancelModal and openCreateFromSlot return nothing; a page without    *)
(* its script has no such function.                                         *)
MCOutcome == [n \in Nodes |-> IF n \in {"seriesButton", "slot"} THEN {"called", "failed"} ELSE {}]
MCHref == [n \in Nodes |-> IF n \in {"row", "lesson"} THEN "lessonPage" ELSE None]
MCOpens == [n \in Nodes |-> IF n = "seriesButton" THEN "cancelModal" ELSE None]
MCCloses == [n \in Nodes |-> IF n = "dialogClose" THEN "cancelModal" ELSE None]
MCRemoves == [n \in Nodes |-> IF n = "tierButton" THEN "tier" ELSE None]
MCInside == [d \in Dialogs |-> {"dialogClose", "dialogSubmit"}]
MCNative == [n \in Nodes |->
    CASE n \in {"dateLink", "joinLink", "editLink", "back"} -> "link"
      [] n \in {"cancelButton", "dialogSubmit"}            -> "submit"
      [] OTHER                                             -> "none"]
MCLink == [n \in Nodes |->
    CASE n = "dateLink" -> "lessonPage"
      [] n = "joinLink" -> "meeting"
      [] n = "editLink" -> "editPage"
      [] n = "back"     -> "home"
      [] OTHER          -> None]
MCFormOf == [n \in Nodes |->
    CASE n = "cancelButton" -> "cancelForm"
      [] n = "dialogSubmit" -> "singleForm"
      [] n = "language"     -> "languageForm"
      [] OTHER              -> None]
=============================================================================
