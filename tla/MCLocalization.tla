--------------------------- MODULE MCLocalization ---------------------------
(* Three matrices each sent twice over what dotbot-provision wrote, one power  *)
(* loss; a robot measured outside, near and far from where it was.             *)
EXTENDS Localization

MCFixes == {-1, 1, 2, 4}
===============================================================================
