----------------------------- MODULE MCGuiSync -----------------------------
(***************************************************************************)
(* Instances of GuiSync for TLC.  Five requests are a GUI that is created, *)
(* shown and destroyed, and the next one created and shown.                *)
(***************************************************************************)
EXTENDS GuiSync
=============================================================================
