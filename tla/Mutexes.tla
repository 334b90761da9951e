------------------------------ MODULE Mutexes ------------------------------
(* The mutexes of this server: of its lists (list.cpp:28-36), of its       *)
(* daemons and of what its threads share (stratum.cpp:322-324).            *)
CONSTANT Coinds     \* daemons' objects

g_job_mutex == <<"g_job_mutex">>
g_list_coind == <<"g_list_coind">>
g_list_client == <<"g_list_client">>
g_list_job == <<"g_list_job">>
g_list_remote == <<"g_list_remote">>
g_list_block == <<"g_list_block">>
g_list_worker == <<"g_list_worker">>
g_list_share == <<"g_list_share">>
g_list_submit == <<"g_list_submit">>
g_db_mutex == <<"g_db_mutex">>
g_nonce1_mutex == <<"g_nonce1_mutex">>
g_job_create_mutex == <<"g_job_create_mutex">>
coind_mutex(d) == <<"coind->mutex", d>>
rpc_mutex(d) == <<"rpc->mutex", d>>

CoindMutexes == {coind_mutex(d) : d \in Coinds}
RpcMutexes == {rpc_mutex(d) : d \in Coinds}
Others == {g_list_remote, g_list_block, g_list_worker, g_list_share, g_list_submit,
           g_db_mutex, g_nonce1_mutex, g_job_create_mutex}
Mutexes == {g_job_mutex, g_list_coind, g_list_client, g_list_job}
                \cup CoindMutexes \cup RpcMutexes \cup Others
=============================================================================
