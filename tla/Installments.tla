---------------------------- MODULE Installments ----------------------------
(***************************************************************************)
(* The card instalments of src/app/installments.py, in cents and rates of  *)
(* one ten-thousandth.                                                     *)
(***************************************************************************)
EXTENDS Integers

Counts == 1..18
FIXED_INSTALLMENT_RATES ==
  <<495, 562, 676, 756, 832, 925, 994, 1082, 1173,
    1240, 1296, 1405, 1500, 1580, 1640, 1710, 1800, 1920>>

(* round(a / b) to whole cents.                                            *)
Rounded(a, b) == (2 * a + b) \div (2 * b)

Total(price, count) == Rounded(price * 10000, 10000 - FIXED_INSTALLMENT_RATES[count])
Parcel(price, count) ==
  Rounded(price * 10000, (10000 - FIXED_INSTALLMENT_RATES[count]) * count)

(* An entry has to leave something to pay in instalments.                  *)
EntryAccepted(price, entry) == entry >= 0 /\ entry < price
BadRemaining(price, entry) == price
Remaining(price, entry) == price - entry

TablePrice(price, entry, count) == Total(Remaining(price, entry), count)
=============================================================================
