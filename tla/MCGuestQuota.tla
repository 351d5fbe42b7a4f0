------------------------------ MODULE MCGuestQuota ------------------------------
(* The instance of GuestQuota that TLC checks.                                  *)
EXTENDS GuestQuota

===============================================================================
