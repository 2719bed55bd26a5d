----------------------------- MODULE Admission -----------------------------
(***************************************************************************)
(* The arithmetic of admission: the host's CPU and RAM budgets and the     *)
(* test Create makes against them, in the signed integers the code uses.   *)
(***************************************************************************)
EXTENDS Integers, FiniteSetsExt

CONSTANTS
  CPUTotal,           \* detectCPUTotal()
  RAMTotalMb,         \* detectRamTotalMb()
  HostReservedRamMb,  \* HOST_RESERVED_RAM_MB
  IntHalf             \* int64 holds -IntHalf .. IntHalf - 1

ASSUME AdmissionAssumption ==
  /\ IntHalf \in Nat \ {0}
  /\ CPUTotal \in 1 .. IntHalf - 1
  /\ RAMTotalMb \in 0 .. IntHalf - 1
  /\ HostReservedRamMb \in 0 .. IntHalf - 1

\* Two's-complement wrap-around of int64 arithmetic.
Wrap(n) == ((n + IntHalf) % (2 * IntHalf)) - IntHalf

capacityCPU == CPUTotal

budgetUnclamped(totalMb, reservedMb) == Wrap(totalMb - reservedMb)

budgetRAMMb(totalMb, reservedMb) ==
  LET ram == Wrap(totalMb - reservedMb) IN IF ram < 0 THEN 0 ELSE ram

capacityRAMMb == budgetRAMMb(RAMTotalMb, HostReservedRamMb)

\* used(f, S): usedCPULocked and usedRAMMbLocked, the wrapped sum of f over the VMs S.
used(f, S) == Wrap(MapThenSumSet(LAMBDA id : f[id], S))

fitsBeforeOnly(budgetMb, usedCPU, vcpu, usedRAMMb, ramMb) ==
  usedCPU < capacityCPU /\ usedRAMMb < budgetMb

fitsStrictly(budgetMb, usedCPU, vcpu, usedRAMMb, ramMb) ==
  Wrap(usedCPU + vcpu) < capacityCPU /\ Wrap(usedRAMMb + ramMb) < budgetMb

\* The budget test, for the RAM budget, what is in use and what is asked for.
fits(budgetMb, usedCPU, vcpu, usedRAMMb, ramMb) ==
  Wrap(usedCPU + vcpu) <= capacityCPU /\ Wrap(usedRAMMb + ramMb) <= budgetMb

\* Whatever is reserved, more than the host has included, the clamped budget and the
\* wrapped sums refuse a request exactly if it takes more than the host has left and
\* the sum that shows it is an int64.  An overflow is the only error, and it admits.
ErrsByOverflowOnly(reservedMb, usedCPU, vcpu, usedRAMMb, ramMb) ==
  RAMTotalMb - reservedMb < IntHalf =>
    (fits(budgetRAMMb(RAMTotalMb, reservedMb), usedCPU, vcpu, usedRAMMb, ramMb) <=>
       /\ usedCPU + vcpu > CPUTotal => usedCPU + vcpu >= IntHalf
       /\ usedRAMMb + ramMb + reservedMb > RAMTotalMb => usedRAMMb + ramMb >= IntHalf)
=============================================================================
