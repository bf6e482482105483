-------------------------- MODULE MCContentAnalysis --------------------------
(* Instance of ContentAnalysis for TLC with the settings' defaults, except    *)
(* for the pools: one slot each, so that two analyses compete, and a thread   *)
(* more than there are extraction slots; and three links instead of 1000.     *)
(* The pages: nothing to see, a shell, a login under another brand's name, a  *)
(* form that takes one-time codes elsewhere, a card form with lures around it *)
(* and a download.  Two of them score below the danger threshold and are      *)
(* rendered, as is the shell.                                                 *)
EXTENDS ContentAnalysis

MCWeight ==
  [BRAND_IMPERSONATION_FORM |-> 50, LOGO_ALT_IMPERSONATION |-> 10,
   CREDENTIAL_FORM_EXTERNAL |-> 45, PII_COLLECTION_FORM |-> 20, SENSITIVE_ID_FIELD |-> 30,
   FINANCIAL_FIELD |-> 25, RISKY_DOWNLOAD_LINK |-> 20, PUBLIC_AGENCY_LURE |-> 20,
   KOREAN_LURE_TEXT |-> 15, META_REFRESH |-> 20, EXTERNAL_META_REFRESH |-> 25,
   EXTERNAL_LINK_OVERUSE |-> 5]

Blank ==
  [title |-> "plain", forms |-> <<>>, inputs |-> {}, fields |-> {}, refreshes |-> {},
   links |-> <<>>, alts |-> {}, mount |-> FALSE, words |-> {}]

Link(to, file) == [to |-> to, file |-> file]

Shell == [Blank EXCEPT !.mount = TRUE, !.title = "untitled"]
Login ==
  [Blank EXCEPT
     !.title = "foreign", !.alts = {"foreign"},
     !.forms = <<[password |-> TRUE, action |-> "none"]>>,
     !.links = <<Link("external", FALSE), Link("other", TRUE), Link("own", FALSE),
                 Link("external", TRUE)>>]
Form ==
  [Blank EXCEPT
     !.title = "own", !.alts = {"own"},
     !.forms = <<[password |-> FALSE, action |-> "own"],
                 [password |-> TRUE, action |-> "external"]>>,
     !.fields = {"otp"}, !.refreshes = {"external"}]
Lure ==
  [Blank EXCEPT
     !.words = {"lure", "agency"}, !.fields = {"card"},
     !.links = <<Link("external", FALSE), Link("own", FALSE)>>]

Download == [Blank EXCEPT !.links = <<Link("external", TRUE), Link("external", FALSE)>>]

MCPages == {Blank, Shell, Login, Form, Lure, Download}
=============================================================================
