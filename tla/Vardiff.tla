------------------------------ MODULE Vardiff ------------------------------
(***************************************************************************)
(* The difficulty of one miner: client_difficulty.cpp, client_subscribe,   *)
(* client_authorize and suggest_difficulty of client.cpp, and what the     *)
(* miner has been told.  The miner hashes at a steady rate, and now and    *)
(* then asks for a difficulty or subscribes again.  It is assumed to have  *)
(* subscribed before it is authorized.                                     *)
(*                                                                         *)
(* A difficulty is an integer number of units of 1/4000: the code's        *)
(* thousandths, times 1.5 and divided by 2, stay integers.  Rounding       *)
(* errors of the double arithmetic are not modelled.                       *)
(* shares_per_minute moves between representatives of the ranges           *)
(* client_adjust_difficulty tells apart.                                   *)
(***************************************************************************)
EXTENDS Integers

CONSTANTS
    g_stratum_min_diff, g_stratum_max_diff, g_stratum_difficulty,
    Hashrates,      \* a hash rate: shares per minute at difficulty one unit
    Suggestions,    \* difficulties a miner asks for
    MaxRequests     \* bound: how often it does, or subscribes again

One == 4000

ASSUME DifficultiesAssumption ==
    /\ {g_stratum_min_diff, g_stratum_max_diff, g_stratum_difficulty} \subseteq Nat \ {0}
    /\ Hashrates \subseteq Nat \ {0} /\ Suggestions \subseteq Nat /\ MaxRequests \in Nat

(* Shares per minute: below 5, the target, above 20, above 25, above 100.  *)
Levels == <<3, 10, 22, 50, 110>>
YAAMP_SHAREPERSEC == 10

VARIABLES
    hashrate,
    difficulty_actual,
    difficulty_fixed,       \* the password asked for a difficulty
    shares_per_minute,
    listed,                 \* authorized: job_broadcast adjusts it
    told,                   \* the difficulty or target last sent, 0 for none
    requests,               \* suggestions and repeated subscriptions so far
    unannounced             \* history: changed by one of these, not sent

difficulty_vars == <<hashrate, difficulty_actual, difficulty_fixed, shares_per_minute, listed,
                     told, requests, unannounced>>

(* Mutant: the last line of client_normalize_difficulty is missing.        *)
client_normalize_difficulty_no_max(d) ==
    IF d < g_stratum_min_diff THEN g_stratum_min_diff
    ELSE IF d < One THEN (d \div 8) * 8
    ELSE IF d > One THEN (d \div (2 * One)) * (2 * One)
    ELSE d

(* Even thousandths below 1, even numbers above it, between the limits.    *)
client_normalize_difficulty(d) ==
    LET even == CASE d < g_stratum_min_diff -> g_stratum_min_diff
                  [] d >= g_stratum_min_diff /\ d < One -> (d \div 8) * 8
                  [] d >= g_stratum_min_diff /\ d > One -> (d \div (2 * One)) * (2 * One)
                  [] OTHER -> d
    IN  IF even > g_stratum_max_diff THEN g_stratum_max_diff ELSE even

(* What a client can have asked for.                                       *)
Askable == {client_normalize_difficulty(d) : d \in Suggestions} \ {0}

(* client_subscribe sets the default, or what a client that it resumes     *)
(* has, here the default or what that one asked for.                       *)
Subscribed == {g_stratum_difficulty} \cup Askable

(* The first subscription.                                                 *)
DifficultyInit ==
    /\ hashrate \in Hashrates
    /\ difficulty_actual \in Subscribed
    /\ difficulty_fixed = FALSE
    /\ shares_per_minute = YAAMP_SHAREPERSEC
    /\ listed = FALSE
    /\ told = 0
    /\ requests = 0
    /\ unannounced = FALSE

(* Another one, before or after the client is listed: the answer that      *)
(* equihash miners get names no difficulty.                                *)
client_subscribe ==
    /\ requests < MaxRequests
    /\ requests' = requests + 1
    /\ difficulty_actual' \in Subscribed
    /\ unannounced' = TRUE
    /\ UNCHANGED <<hashrate, difficulty_fixed, shares_per_minute, listed, told>>

Send(d) == told' = d /\ shares_per_minute' = YAAMP_SHAREPERSEC /\ unannounced' = FALSE

(* client_initialize_difficulty in client_authorize: the password may ask  *)
(* for a difficulty ...                                                    *)
client_initialize_difficulty(d, fixed) ==
    \/ d = difficulty_actual /\ fixed = difficulty_fixed
    \/ d \in Askable /\ fixed = TRUE

(* ... and client_send_difficulty.                                         *)
client_authorize ==
    /\ ~listed
    /\ listed' = TRUE
    /\ \E d \in {difficulty_actual} \cup Askable, fixed \in BOOLEAN :
          /\ client_initialize_difficulty(d, fixed)
          /\ difficulty_actual' = d /\ difficulty_fixed' = fixed
          /\ Send(d)
    /\ UNCHANGED <<hashrate, requests>>

(* mining.suggest_difficulty, which sends nothing but its result.  (A      *)
(* target out of bounds is one whose difficulty came out as 0.)            *)
client_suggest_difficulty(d) ==
    /\ requests < MaxRequests
    /\ requests' = requests + 1
    /\ LET n == client_normalize_difficulty(d)
       IN  IF n = 0 THEN UNCHANGED <<difficulty_actual, unannounced>>
           ELSE difficulty_actual' = n /\ unannounced' = TRUE
    /\ UNCHANGED <<hashrate, difficulty_fixed, shares_per_minute, listed, told>>

-----------------------------------------------------------------------------
(* The miner works on what it was told.                                    *)
Level(shares, minutes) ==
    CASE shares < 5 * minutes -> 1
      [] shares >= 5 * minutes /\ shares <= 20 * minutes -> 2
      [] shares > 20 * minutes /\ shares <= 25 * minutes -> 3
      [] shares > 25 * minutes /\ shares <= 100 * minutes -> 4
      [] OTHER -> 5

(* A share below difficulty_actual is not accepted; of those that meet     *)
(* what was told, one in so many is above it.                              *)
Rate ==
    Level(hashrate, IF told > difficulty_actual THEN told ELSE difficulty_actual)

(* client_record_difficulty: an accepted share moves the average towards   *)
(* the rate at which they come.                                            *)
client_record_difficulty ==
    LET now == Level(shares_per_minute, 1)
    IN  /\ listed
        /\ Rate # now
        /\ shares_per_minute' = Levels[IF Rate > now THEN now + 1 ELSE now - 1]
        /\ UNCHANGED <<hashrate, difficulty_actual, difficulty_fixed, listed, told,
                       requests, unannounced>>

-----------------------------------------------------------------------------
(* Mutant: the new difficulty is not sent.                                 *)
client_change_difficulty_silent(d) ==
    LET n == client_normalize_difficulty(d)
    IN  /\ n \notin {0, difficulty_actual}
        /\ difficulty_actual' = n
        /\ UNCHANGED <<told, shares_per_minute, unannounced>>

(* A difficulty that is 0 or no change once normalized changes nothing.    *)
client_change_difficulty(d) ==
    LET n == client_normalize_difficulty(d)
    IN  /\ n \notin {0, difficulty_actual}
        /\ difficulty_actual' = n
        /\ Send(n)

(* Mutant: the difficulty comes down as soon as the rate is below 15.      *)
client_adjust_difficulty_low_at_15 ==
    /\ listed
    /\ \/ shares_per_minute > 25 /\ client_change_difficulty(difficulty_actual * 2)
       \/ shares_per_minute < 15 /\ client_change_difficulty(difficulty_actual \div 2)
    /\ UNCHANGED <<hashrate, difficulty_fixed, listed, requests>>

(* In job_broadcast, right before a new job goes out.                      *)
client_adjust_difficulty ==
    /\ listed
    /\ \/ shares_per_minute > 100 /\ client_change_difficulty(difficulty_actual * 4)
       \/ /\ ~difficulty_fixed
          /\ \/ /\ shares_per_minute > 25 /\ shares_per_minute <= 100
                /\ client_change_difficulty(difficulty_actual * 2)
             \/ /\ shares_per_minute > 20 /\ shares_per_minute <= 25
                /\ client_change_difficulty((difficulty_actual * 3) \div 2)
             \/ /\ shares_per_minute < 5
                /\ client_change_difficulty(difficulty_actual \div 2)
    /\ UNCHANGED <<hashrate, difficulty_fixed, listed, requests>>

DifficultyNext ==
    \/ client_subscribe
    \/ client_authorize
    \/ \E d \in Suggestions : client_suggest_difficulty(d)
    \/ client_record_difficulty
    \/ client_adjust_difficulty

DifficultySpec == DifficultyInit /\ [][DifficultyNext]_difficulty_vars

(* The miner goes on finding shares, new jobs go on being broadcast.       *)
FairDifficultySpec ==
    /\ DifficultySpec
    /\ WF_difficulty_vars(client_authorize)
    /\ WF_difficulty_vars(client_record_difficulty)
    /\ WF_difficulty_vars(client_adjust_difficulty)

-----------------------------------------------------------------------------
(* Only the configured default may be above the maximum                    *)
(* (stratum.cpp:272-274): it is not normalized.                            *)
Given(d) == d \in 1..g_stratum_max_diff \/ d = g_stratum_difficulty

DifficultyTypeOK ==
    /\ hashrate \in Hashrates
    /\ Given(difficulty_actual)
    /\ difficulty_fixed \in BOOLEAN
    /\ \E i \in 1..5 : shares_per_minute = Levels[i]
    /\ listed \in BOOLEAN
    /\ told = 0 \/ Given(told)
    /\ requests \in 0..MaxRequests
    /\ unannounced \in BOOLEAN

(* A miner's shares are measured at the difficulty it was told             *)
(* (client_submit.cpp:794-832), except between a suggestion or another     *)
(* subscription, which are not answered with a difficulty (client.cpp:4-17 *)
(* and 31, 124), and the next change.                                      *)
MeasuredAsTold == listed /\ ~unannounced => told = difficulty_actual

(* The difficulty of a steady miner settles (client_difficulty.cpp:49-70): *)
(* no step up is undone by a step down, rounding included.                 *)
Settles == <>[][UNCHANGED difficulty_actual]_difficulty_vars

(* Where a limit is in the way, or the difficulty is caught between 1/4    *)
(* and 2: a step up is rounded to 0 or to no step there.                   *)
Caught ==
    \/ Rate = 1 /\ difficulty_actual < 2 * g_stratum_min_diff
    \/ Rate > 2 /\ difficulty_actual = g_stratum_max_diff
    \/ Rate > 2 /\ difficulty_actual \in (One \div 4 + 1)..(2 * One)

(* ... and when it has, a miner without a difficulty of its own finds 5 to *)
(* 20 shares per minute, unless it is caught (client_difficulty.cpp:5-9).  *)
EndsInBand == <>[](told > 0 /\ (difficulty_fixed \/ Rate = 2 \/ Caught))

(* diff_min is the least difficulty given to a miner                       *)
(* (config.sample/equihash.conf:15).                                       *)
MinRespected == difficulty_actual >= g_stratum_min_diff
=============================================================================
