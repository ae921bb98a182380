------------------------------ MODULE RedisLock ------------------------------
(***************************************************************************)
(* The advisory lock of src/redis/redis.service.ts: the Redis commands it  *)
(* is made of, one action per command, because every `await` between two   *)
(* of them lets another request in.  The clients (Market, Estate) sequence *)
(* the commands the way acquireLock and releaseLock do.                    *)
(***************************************************************************)
EXTENDS Integers

CONSTANT Keys          \* the lock keys, `lock:...`

VARIABLES
  lockVal,             \* Keys -> the string stored under the key, or Absent
  lockTtl              \* Keys -> whether the key carries an expiry

\* lockValue is Date.now().toString(), never 0.
Absent == 0

\* No key is taken when the Redis database is empty.
LockInit ==
  /\ lockVal = [k \in Keys |-> Absent]
  /\ lockTtl = [k \in Keys |-> FALSE]

\* SETNX that answers 1: the key is created without an expiry.
SetNx(k, v) ==
  /\ lockVal[k] = Absent
  /\ lockVal' = [lockVal EXCEPT ![k] = v]
  /\ UNCHANGED lockTtl

\* EXPIRE: sets the expiry of whatever value is there, a no-op without a key.
SetExpiry(k) ==
  /\ lockTtl' = [lockTtl EXCEPT ![k] = lockVal[k] # Absent]
  /\ UNCHANGED lockVal

\* DEL, whoever stored the value.
Del(k) ==
  /\ lockVal' = [lockVal EXCEPT ![k] = Absent]
  /\ lockTtl' = [lockTtl EXCEPT ![k] = FALSE]

\* The server drops a key whose expiry has passed.
Lapse(k) == lockTtl[k] /\ Del(k)
==============================================================================
