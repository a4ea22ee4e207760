-------------------------- MODULE MCLockingWizard --------------------------
EXTENDS LockingWizard

CONSTANTS empty, p, q, msid, psid, factoryPin, free

=============================================================================
