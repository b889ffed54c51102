---------------------------- MODULE MCMailExport ----------------------------
(***************************************************************************)
(* An old mail that is imported late, and two of the same day whose files  *)
(* have the same name; `logo` is attached to several, `bill` is protected. *)
(***************************************************************************)
EXTENDS MailExportHistory

MCMails == {1, 2, 3}
MCSent == <<3, 8, 8>>
MCAttachments == << <<"logo">>, <<"bill", "logo">>, <<"terms">> >>
MCContents == {"logo", "bill", "terms"}
MCName == [x \in MCMails \X MCContents |->
             IF x[2] = "logo" THEN "logo.pdf" ELSE "invoice.pdf"]
MCProtected == {"bill"}
=============================================================================
