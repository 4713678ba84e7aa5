-------------------------- MODULE MC_AccountPages --------------------------
\* One tab, signed in, with its profile form open.
EXTENDS AccountPages

FormInit == PagesInit /\ session["desk"] = "ada" /\ page["desk"] = "profile"
FormSpec == FormInit /\ [][PagesNext]_pageVars
=============================================================================
