-------------------------- MODULE ClusterSchemas --------------------------
(***************************************************************************)
(* The schema of the configuration of a cluster (schemas/cluster_schema.py *)
(* and the sections it shares, schemas/common_schema.py), as far as the    *)
(* comparison of two configurations reads it: for every key whether it is  *)
(* a parameter, a section or a list of sections, its update policy, and    *)
(* the key by which the items of a list are told apart.  Whether a key is  *)
(* required says which configurations exist.  One definition per class,    *)
(* with the class's name; the order of the keys matters to the comparison  *)
(* only in a custom action, elsewhere keys with one policy stand together. *)
(***************************************************************************)
EXTENDS Sequences

Field(kind, key, policy, update_key, schema) ==
  [kind |-> kind, key |-> key, policy |-> policy, update_key |-> update_key,
   schema |-> schema, required |-> FALSE]

Params(policy, keys) == [i \in DOMAIN keys |-> Field("param", keys[i], policy, "", "")]

Section(key, policy, schema) == << Field("section", key, policy, "", schema) >>

Many(key, policy, update_key, schema) == << Field("list", key, policy, update_key, schema) >>

Required(fields) == [i \in DOMAIN fields |-> [fields[i] EXCEPT !.required = TRUE]]

\* OneOrManyCustomActionField: Sequence is no key of the schema.  The class of an
\* action takes the update policy of the field.
CustomActionSchema(policy) == Required(Params(policy, << "Script" >>)) \o Params(policy, << "Args" >>)

CustomAction(key, policy) ==
  Section(key, policy, CASE policy = "SUPPORTED"   -> "SupportedActionSchema"
                         [] policy = "UNSUPPORTED" -> "UnsupportedActionSchema"
                         [] OTHER                  -> "QueueActionSchema")
-----------------------------------------------------------------------------
LoginNodesImageSchema == Params("LOGIN_NODES_POOL_STOP", << "CustomAmi" >>)
BaseNetworkingSchema == Params("SUPPORTED", << "AdditionalSecurityGroups", "SecurityGroups" >>)
LoginNodeProxySchema == Params("SUPPORTED", << "HttpProxyAddress" >>)

LoginNodesNetworkingSchema ==
     Required(Params("LOGIN_NODES_POOL_STOP", << "SubnetIds" >>))
  \o Params("LOGIN_NODES_POOL_STOP", << "AdditionalSecurityGroups", "SecurityGroups" >>)
  \o Section("Proxy", "LOGIN_NODES_POOL_STOP", "LoginNodeProxySchema")

DcvSchema ==
     Params("UNSUPPORTED", << "Enabled", "Port" >>) \o Params("SUPPORTED", << "AllowedIps" >>)

LoginNodesSshSchema == Params("LOGIN_NODES_POOL_STOP", << "AllowedIps" >>)

LoginNodesCustomActionsSchema ==
     CustomAction("OnNodeStart", "UNSUPPORTED")
  \o CustomAction("OnNodeConfigured", "UNSUPPORTED")
  \o CustomAction("OnNodeUpdated", "SUPPORTED")

AdditionalIamPolicySchema == Required(Params("SUPPORTED", << "Policy" >>))

BaseIamSchema ==
     Params("SUPPORTED", << "InstanceRole" >>)
  \o Many("AdditionalIamPolicies", "SUPPORTED", "Policy", "AdditionalIamPolicySchema")

LoginNodesIamSchema ==
     Params("LOGIN_NODES_POOL_STOP", << "InstanceRole", "InstanceProfile" >>)
  \o Many("AdditionalIamPolicies", "LOGIN_NODES_POOL_STOP", "Policy", "AdditionalIamPolicySchema")

LoginNodesPoolSchema ==
     Required(Params("LOGIN_NODES_POOL_STOP", << "Name", "InstanceType" >>))
  \o Required(Params("SUPPORTED", << "Count" >>)) \o Params("SUPPORTED", << "GracetimePeriod" >>)
  \o Section("Image", "LOGIN_NODES_POOL_STOP", "LoginNodesImageSchema")
  \o Required(Section("Networking", "LOGIN_NODES_POOL_STOP", "LoginNodesNetworkingSchema"))
  \o Section("Dcv", "UNSUPPORTED", "DcvSchema")
  \o Section("Ssh", "LOGIN_NODES_POOL_STOP", "LoginNodesSshSchema")
  \o Section("CustomActions", "IGNORED", "LoginNodesCustomActionsSchema")
  \o Section("Iam", "LOGIN_NODES_POOL_STOP", "LoginNodesIamSchema")

LoginNodesSchema == Required(Many("Pools", "LOGIN_NODES_POOLS", "Name", "LoginNodesPoolSchema"))

ImageSchema ==
     Required(Params("UNSUPPORTED", << "Os" >>)) \o Params("UNSUPPORTED", << "CustomAmi" >>)

HeadNodeProxySchema == Params("UNSUPPORTED", << "HttpProxyAddress" >>)

HeadNodeNetworkingSchema ==
     BaseNetworkingSchema \o Required(Params("UNSUPPORTED", << "SubnetId" >>))
  \o Params("UNSUPPORTED", << "ElasticIp" >>)
  \o Section("Proxy", "UNSUPPORTED", "HeadNodeProxySchema")

BaseSshSchema == Params("UNSUPPORTED", << "KeyName" >>)
HeadNodeSshSchema == BaseSshSchema \o Params("SUPPORTED", << "AllowedIps" >>)

HeadNodeRootVolumeSchema ==
     Params("UNSUPPORTED", << "VolumeType", "Iops", "Size", "Throughput", "Encrypted",
         "DeleteOnTermination" >>)

HeadNodeEphemeralVolumeSchema == Params("UNSUPPORTED", << "MountDir" >>)

HeadNodeStorageSchema ==
     Section("RootVolume", "UNSUPPORTED", "HeadNodeRootVolumeSchema")
  \o Section("EphemeralVolume", "UNSUPPORTED", "HeadNodeEphemeralVolumeSchema")

SharedStorageEfsSettingsSchema == Params("UNSUPPORTED", << "Encrypted" >>)

HeadNodeCustomActionsSchema ==
     CustomAction("OnNodeStart", "UNSUPPORTED")
  \o CustomAction("OnNodeConfigured", "UNSUPPORTED")
  \o CustomAction("OnNodeUpdated", "SUPPORTED")

S3AccessSchema ==
     Required(Params("SUPPORTED", << "BucketName" >>))
  \o Params("SUPPORTED", << "KeyName", "EnableWriteAccess" >>)

IamSchema == BaseIamSchema \o Many("S3Access", "SUPPORTED", "BucketName", "S3AccessSchema")
HeadNodeIamSchema == IamSchema \o Params("UNSUPPORTED", << "InstanceProfile" >>)
ImdsSchema == Params("UNSUPPORTED", << "Secured" >>)
HeadNodeImageSchema == Params("UNSUPPORTED", << "CustomAmi" >>)

HeadNodeSchema ==
     Required(Params("UNSUPPORTED", << "InstanceType" >>))
  \o Params("UNSUPPORTED", << "DisableSimultaneousMultithreading", "SharedStorageType" >>)
  \o Required(Section("Networking", "UNSUPPORTED", "HeadNodeNetworkingSchema"))
  \o Section("Ssh", "SUPPORTED", "HeadNodeSshSchema")
  \o Section("LocalStorage", "UNSUPPORTED", "HeadNodeStorageSchema")
  \o Section("SharedStorageEfsSettings", "UNSUPPORTED", "SharedStorageEfsSettingsSchema")
  \o Section("Dcv", "UNSUPPORTED", "DcvSchema")
  \o Section("CustomActions", "IGNORED", "HeadNodeCustomActionsSchema")
  \o Section("Iam", "SUPPORTED", "HeadNodeIamSchema") \o Section("Imds", "UNSUPPORTED", "ImdsSchema")
  \o Section("Image", "UNSUPPORTED", "HeadNodeImageSchema")

DnsSchema == Params("UNSUPPORTED", << "DisableManagedDns", "HostedZoneId", "UseEc2Hostnames" >>)

DatabaseSchema ==
     Required(Params("COMPUTE_FLEET_STOP", << "Uri", "UserName", "PasswordSecretArn" >>))
  \o Params("SUPPORTED", << "DatabaseName" >>)

ExternalSlurmdbdSchema ==
     Required(Params("SUPPORTED", << "Host" >>)) \o Params("SUPPORTED", << "Port" >>)

SlurmSettingsSchema ==
     Params("COMPUTE_FLEET_STOP", << "ScaledownIdletime", "EnableMemoryBasedScheduling" >>)
  \o Params("IGNORED", << "QueueUpdateStrategy" >>)
  \o Params("SUPPORTED", << "CustomSlurmSettings", "CustomSlurmSettingsIncludeFile" >>)
  \o Params("COMPUTE_AND_LOGIN_NODES_STOP", << "MungeKeySecretArn" >>)
  \o Section("Dns", "UNSUPPORTED", "DnsSchema")
  \o Section("Database", "COMPUTE_FLEET_STOP", "DatabaseSchema")
  \o Section("ExternalSlurmdbd", "SUPPORTED", "ExternalSlurmdbdSchema")

BaseQueueSchema ==
     Required(Params("UNSUPPORTED", << "Name" >>))
  \o Params("QUEUE_UPDATE_STRATEGY", << "CapacityType" >>)

QueueRootVolumeSchema ==
     Params("QUEUE_UPDATE_STRATEGY", << "Size", "Encrypted", "VolumeType", "Iops", "Throughput" >>)

QueueEphemeralVolumeSchema == Params("QUEUE_UPDATE_STRATEGY", << "MountDir" >>)

QueueStorageSchema ==
     Section("RootVolume", "QUEUE_UPDATE_STRATEGY", "QueueRootVolumeSchema")
  \o Section("EphemeralVolume", "QUEUE_UPDATE_STRATEGY", "QueueEphemeralVolumeSchema")

ComputeSettingsSchema == Section("LocalStorage", "QUEUE_UPDATE_STRATEGY", "QueueStorageSchema")

QueueCustomActionsSchema ==
     CustomAction("OnNodeStart", "QUEUE_UPDATE_STRATEGY")
  \o CustomAction("OnNodeConfigured", "QUEUE_UPDATE_STRATEGY")

QueueIamSchema == IamSchema \o Params("COMPUTE_FLEET_STOP", << "InstanceProfile" >>)
QueueImageSchema == Params("QUEUE_UPDATE_STRATEGY", << "CustomAmi" >>)

CapacityReservationTargetSchema ==
     Params("QUEUE_UPDATE_STRATEGY", << "CapacityReservationId",
         "CapacityReservationResourceGroupArn" >>)

CommonQueueSchema ==
     BaseQueueSchema
  \o Section("ComputeSettings", "QUEUE_UPDATE_STRATEGY", "ComputeSettingsSchema")
  \o Section("CustomActions", "QUEUE_UPDATE_STRATEGY", "QueueCustomActionsSchema")
  \o Section("Iam", "SUPPORTED", "QueueIamSchema")
  \o Section("Image", "QUEUE_UPDATE_STRATEGY", "QueueImageSchema")
  \o Section("CapacityReservationTarget", "QUEUE_UPDATE_STRATEGY", "CapacityReservationTargetSchema")

ComputeResourceSchema == Required(Params("UNSUPPORTED", << "Name" >>))
InstanceTypeSchema == Required(Params("COMPUTE_FLEET_STOP", << "InstanceType" >>))
EfaSchema == Params("QUEUE_UPDATE_STRATEGY", << "Enabled", "GdrSupport" >>)
PlacementGroupSchema == Params("MANAGED_PLACEMENT_GROUP", << "Enabled", "Id", "Name" >>)

SlurmComputeResourceNetworkingSchema ==
     Section("PlacementGroup", "MANAGED_PLACEMENT_GROUP", "PlacementGroupSchema")

GpuHealthCheckSchema == Params("SUPPORTED", << "Enabled" >>)
HealthChecksSchema == Section("Gpu", "SUPPORTED", "GpuHealthCheckSchema")
QueueTagSchema == Required(Params("QUEUE_UPDATE_STRATEGY", << "Key", "Value" >>))

LaunchTemplateOverridesSchema ==
     Required(Params("QUEUE_UPDATE_STRATEGY", << "LaunchTemplateId", "Version" >>))

SlurmComputeResourceSchema ==
     ComputeResourceSchema
  \o Params("COMPUTE_FLEET_STOP", << "InstanceType", "DisableSimultaneousMultithreading" >>)
  \o Params("RESIZE_UPDATE_STRATEGY_ON_REMOVE", << "MaxCount", "MinCount" >>)
  \o Params("QUEUE_UPDATE_STRATEGY", << "SpotPrice", "SchedulableMemory" >>)
  \o Params("SUPPORTED", << "CustomSlurmSettings", "StaticNodePriority", "DynamicNodePriority" >>)
  \o Many("Instances", "COMPUTE_FLEET_STOP_ON_REMOVE", "InstanceType", "InstanceTypeSchema")
  \o Section("Efa", "QUEUE_UPDATE_STRATEGY", "EfaSchema")
  \o Section("CapacityReservationTarget", "QUEUE_UPDATE_STRATEGY", "CapacityReservationTargetSchema")
  \o Section("Networking", "MANAGED_PLACEMENT_GROUP", "SlurmComputeResourceNetworkingSchema")
  \o Section("HealthChecks", "SUPPORTED", "HealthChecksSchema")
  \o Many("Tags", "QUEUE_UPDATE_STRATEGY", "Key", "QueueTagSchema")
  \o Section("LaunchTemplateOverrides", "QUEUE_UPDATE_STRATEGY", "LaunchTemplateOverridesSchema")

QueueNetworkingSchema == BaseNetworkingSchema \o Params("UNSUPPORTED", << "AssignPublicIp" >>)
QueueProxySchema == Params("QUEUE_UPDATE_STRATEGY", << "HttpProxyAddress" >>)

SlurmQueueNetworkingSchema ==
     QueueNetworkingSchema \o Required(Params("MANAGED_FSX", << "SubnetIds" >>))
  \o Section("PlacementGroup", "MANAGED_PLACEMENT_GROUP", "PlacementGroupSchema")
  \o Section("Proxy", "QUEUE_UPDATE_STRATEGY", "QueueProxySchema")

SlurmQueueSchema ==
     CommonQueueSchema \o Params("QUEUE_UPDATE_STRATEGY", << "AllocationStrategy" >>)
  \o Params("SUPPORTED", << "CustomSlurmSettings", "JobExclusiveAllocation" >>)
  \o Many("ComputeResources", "RESIZE_UPDATE_STRATEGY_ON_REMOVE", "Name", "SlurmComputeResourceSchema")
  \o Required(Section("Networking", "QUEUE_UPDATE_STRATEGY", "SlurmQueueNetworkingSchema"))
  \o Section("HealthChecks", "SUPPORTED", "HealthChecksSchema")
  \o Many("Tags", "QUEUE_UPDATE_STRATEGY", "Key", "QueueTagSchema")

SchedulingSchema ==
     Required(Params("UNSUPPORTED", << "Scheduler" >>))
  \o Params("SUPPORTED", << "ScalingStrategy" >>)
  \o Section("SlurmSettings", "IGNORED", "SlurmSettingsSchema")
  \o Required(Many("SlurmQueues", "RESIZE_UPDATE_STRATEGY_ON_REMOVE", "Name", "SlurmQueueSchema"))

RaidSchema ==
     Required(Params("UNSUPPORTED", << "Type" >>))
  \o Params("UNSUPPORTED", << "NumberOfVolumes" >>)

EbsSettingsSchema ==
     Params("UNSUPPORTED", << "VolumeType", "Size", "KmsKeyId", "Encrypted", "SnapshotId",
         "VolumeId" >>)
  \o Params("SUPPORTED", << "Iops", "Throughput", "DeletionPolicy" >>)
  \o Section("Raid", "UNSUPPORTED", "RaidSchema")

EfsSettingsSchema ==
     Params("UNSUPPORTED", << "Encrypted", "KmsKeyId", "PerformanceMode", "FileSystemId",
         "AccessPointId", "EncryptionInTransit", "IamAuthorization" >>)
  \o Params("SUPPORTED", << "ThroughputMode", "ProvisionedThroughput", "DeletionPolicy" >>)

DataRepositoryAssociationSchema ==
     Required(Params("UNSUPPORTED", << "Name", "DataRepositoryPath", "FileSystemPath" >>))
  \o Params("UNSUPPORTED", << "BatchImportMetaDataOnCreate" >>)
  \o Params("SUPPORTED", << "ImportedFileChunkSize", "AutoExportPolicy", "AutoImportPolicy" >>)

FsxLustreSettingsSchema ==
     Params("UNSUPPORTED", << "StorageCapacity", "DeploymentType", "ImportedFileChunkSize",
         "ExportPath", "ImportPath", "CopyTagsToBackups", "PerUnitStorageThroughput", "BackupId",
         "KmsKeyId", "FileSystemId", "AutoImportPolicy", "DriveCacheType", "StorageType" >>)
  \o Params("SUPPORTED", << "WeeklyMaintenanceStartTime", "AutomaticBackupRetentionDays",
         "DailyAutomaticBackupStartTime", "DataCompressionType", "DeletionPolicy" >>)
  \o Many("DataRepositoryAssociations", "SUPPORTED", "Name", "DataRepositoryAssociationSchema")

FsxOpenZfsSettingsSchema == Required(Params("UNSUPPORTED", << "VolumeId" >>))
FsxOntapSettingsSchema == Required(Params("UNSUPPORTED", << "VolumeId" >>))
FileCacheSettingsSchema == Required(Params("UNSUPPORTED", << "FileCacheId" >>))

SharedStorageSchema ==
     Required(Params("SHARED_STORAGE_UPDATE_POLICY", << "MountDir" >>))
  \o Required(Params("UNSUPPORTED", << "Name", "StorageType" >>))
  \o Section("EbsSettings", "IGNORED", "EbsSettingsSchema")
  \o Section("EfsSettings", "IGNORED", "EfsSettingsSchema")
  \o Section("FsxLustreSettings", "IGNORED", "FsxLustreSettingsSchema")
  \o Section("FsxOpenZfsSettings", "UNSUPPORTED", "FsxOpenZfsSettingsSchema")
  \o Section("FsxOntapSettings", "UNSUPPORTED", "FsxOntapSettingsSchema")
  \o Section("FileCacheSettings", "UNSUPPORTED", "FileCacheSettingsSchema")

CloudWatchLogsSchema ==
     Params("UNSUPPORTED", << "Enabled" >>)
  \o Params("SUPPORTED", << "RetentionInDays", "DeletionPolicy" >>)

RotationSchema == Params("UNSUPPORTED", << "Enabled" >>)

LogsSchema ==
     Section("CloudWatch", "UNSUPPORTED", "CloudWatchLogsSchema")
  \o Section("Rotation", "UNSUPPORTED", "RotationSchema")

CloudWatchDashboardsSchema == Params("SUPPORTED", << "Enabled" >>)
DashboardsSchema == Section("CloudWatch", "SUPPORTED", "CloudWatchDashboardsSchema")
AlarmsSchema == Params("SUPPORTED", << "Enabled" >>)

MonitoringSchema ==
     Params("COMPUTE_FLEET_STOP", << "DetailedMonitoring" >>)
  \o Section("Logs", "UNSUPPORTED", "LogsSchema")
  \o Section("Dashboards", "SUPPORTED", "DashboardsSchema")
  \o Section("Alarms", "SUPPORTED", "AlarmsSchema")

IntelSoftwareSchema == Params("UNSUPPORTED", << "IntelHpcPlatform" >>)
AdditionalPackagesSchema == Section("IntelSoftware", "UNSUPPORTED", "IntelSoftwareSchema")

TagSchema ==
     Required(Params("UNSUPPORTED", << "Key" >>))
  \o Required(Params("SUPPORTED_UNLESS_ADC", << "Value" >>))

RolesSchema == Params("SUPPORTED", << "LambdaFunctionsRole" >>)

ClusterIamSchema ==
     Params("SUPPORTED", << "PermissionsBoundary" >>)
  \o Params("UNSUPPORTED", << "ResourcePrefix" >>) \o Section("Roles", "SUPPORTED", "RolesSchema")

DirectoryServiceSchema ==
     Required(Params("COMPUTE_AND_LOGIN_NODES_STOP", << "DomainName", "DomainAddr", "PasswordSecretArn",
         "DomainReadOnlyUser" >>))
  \o Params("COMPUTE_AND_LOGIN_NODES_STOP", << "LdapTlsCaCert", "LdapTlsReqCert", "LdapAccessFilter",
         "GenerateSshKeysForUsers", "AdditionalSssdConfigs" >>)

TopLevelImdsSchema == Params("UNSUPPORTED", << "ImdsSupport" >>)

CookbookSchema ==
     Params("UNSUPPORTED", << "ChefCookbook" >>)
  \o Params("EXTRA_CHEF_ATTRIBUTES", << "ExtraChefAttributes" >>)

BaseDevSettingsSchema ==
     Params("UNSUPPORTED", << "NodePackage" >>) \o Section("Cookbook", "IGNORED", "CookbookSchema")

AmiSearchFiltersSchema ==
     Params("UNSUPPORTED", << "Owner", "NamePrefix" >>)
  \o Many("Tags", "UNSUPPORTED", "Key", "TagSchema")

TimeoutsSchema ==
     Params("UNSUPPORTED", << "HeadNodeBootstrapTimeout" >>)
  \o Params("SUPPORTED", << "ComputeNodeBootstrapTimeout", "ComputeInstanceInfoTimeout" >>)

ClusterDevSettingsSchema ==
     BaseDevSettingsSchema
  \o Params("SUPPORTED", << "ClusterTemplate", "InstanceTypesData",
         "ComputeStartupTimeMetricEnabled" >>)
  \o Params("QUEUE_UPDATE_STRATEGY", << "EfaInterfaceType" >>)
  \o Section("AmiSearchFilters", "UNSUPPORTED", "AmiSearchFiltersSchema")
  \o Section("Timeouts", "SUPPORTED", "TimeoutsSchema")

LambdaFunctionsVpcConfigSchema ==
     Required(Params("UNSUPPORTED", << "SecurityGroupIds", "SubnetIds" >>))

BaseDeploymentSettingsSchema ==
     Section("LambdaFunctionsVpcConfig", "UNSUPPORTED", "LambdaFunctionsVpcConfigSchema")

ClusterDeploymentSettingsSchema ==
     BaseDeploymentSettingsSchema
  \o Params("COMPUTE_AND_LOGIN_NODES_STOP", << "DisableSudoAccessForDefaultUser" >>)
  \o Params("UNSUPPORTED", << "DefaultUserHome" >>)

ClusterSchema ==
     Params("UNSUPPORTED", << "Region" >>)
  \o Params("READ_ONLY_RESOURCE_BUCKET", << "CustomS3Bucket" >>)
  \o Params("SUPPORTED", << "AdditionalResources" >>)
  \o Section("LoginNodes", "LOGIN_NODES_STOP", "LoginNodesSchema")
  \o Required(Section("Image", "UNSUPPORTED", "ImageSchema"))
  \o Required(Section("HeadNode", "SUPPORTED", "HeadNodeSchema"))
  \o Required(Section("Scheduling", "UNSUPPORTED", "SchedulingSchema"))
  \o Many("SharedStorage", "SHARED_STORAGE_UPDATE_POLICY", "Name", "SharedStorageSchema")
  \o Section("Monitoring", "IGNORED", "MonitoringSchema")
  \o Section("AdditionalPackages", "UNSUPPORTED", "AdditionalPackagesSchema")
  \o Many("Tags", "SUPPORTED_UNLESS_ADC", "Key", "TagSchema")
  \o Section("Iam", "IGNORED", "ClusterIamSchema")
  \o Section("DirectoryService", "COMPUTE_AND_LOGIN_NODES_STOP", "DirectoryServiceSchema")
  \o Section("Imds", "UNSUPPORTED", "TopLevelImdsSchema")
  \o Section("DevSettings", "SUPPORTED", "ClusterDevSettingsSchema")
  \o Section("DeploymentSettings", "UNSUPPORTED", "ClusterDeploymentSettingsSchema")
-----------------------------------------------------------------------------
\* The classes that are the schema of a section or of the items of a list.
SchemaClasses ==
  [ClusterSchema |-> ClusterSchema, AdditionalIamPolicySchema |-> AdditionalIamPolicySchema,
   AdditionalPackagesSchema |-> AdditionalPackagesSchema, AlarmsSchema |-> AlarmsSchema,
   AmiSearchFiltersSchema |-> AmiSearchFiltersSchema,
   CapacityReservationTargetSchema |-> CapacityReservationTargetSchema,
   CloudWatchDashboardsSchema |-> CloudWatchDashboardsSchema,
   CloudWatchLogsSchema |-> CloudWatchLogsSchema,
   ClusterDeploymentSettingsSchema |-> ClusterDeploymentSettingsSchema,
   ClusterDevSettingsSchema |-> ClusterDevSettingsSchema, ClusterIamSchema |-> ClusterIamSchema,
   ComputeSettingsSchema |-> ComputeSettingsSchema, CookbookSchema |-> CookbookSchema,
   DashboardsSchema |-> DashboardsSchema,
   DataRepositoryAssociationSchema |-> DataRepositoryAssociationSchema,
   DatabaseSchema |-> DatabaseSchema, DcvSchema |-> DcvSchema,
   DirectoryServiceSchema |-> DirectoryServiceSchema, DnsSchema |-> DnsSchema,
   EbsSettingsSchema |-> EbsSettingsSchema, EfaSchema |-> EfaSchema,
   EfsSettingsSchema |-> EfsSettingsSchema, ExternalSlurmdbdSchema |-> ExternalSlurmdbdSchema,
   FileCacheSettingsSchema |-> FileCacheSettingsSchema,
   FsxLustreSettingsSchema |-> FsxLustreSettingsSchema,
   FsxOntapSettingsSchema |-> FsxOntapSettingsSchema,
   FsxOpenZfsSettingsSchema |-> FsxOpenZfsSettingsSchema,
   GpuHealthCheckSchema |-> GpuHealthCheckSchema,
   HeadNodeCustomActionsSchema |-> HeadNodeCustomActionsSchema,
   HeadNodeEphemeralVolumeSchema |-> HeadNodeEphemeralVolumeSchema,
   HeadNodeIamSchema |-> HeadNodeIamSchema, HeadNodeImageSchema |-> HeadNodeImageSchema,
   HeadNodeNetworkingSchema |-> HeadNodeNetworkingSchema,
   HeadNodeProxySchema |-> HeadNodeProxySchema,
   HeadNodeRootVolumeSchema |-> HeadNodeRootVolumeSchema, HeadNodeSchema |-> HeadNodeSchema,
   HeadNodeSshSchema |-> HeadNodeSshSchema, HeadNodeStorageSchema |-> HeadNodeStorageSchema,
   HealthChecksSchema |-> HealthChecksSchema, ImageSchema |-> ImageSchema,
   ImdsSchema |-> ImdsSchema, InstanceTypeSchema |-> InstanceTypeSchema,
   IntelSoftwareSchema |-> IntelSoftwareSchema,
   LambdaFunctionsVpcConfigSchema |-> LambdaFunctionsVpcConfigSchema,
   LaunchTemplateOverridesSchema |-> LaunchTemplateOverridesSchema,
   LoginNodeProxySchema |-> LoginNodeProxySchema,
   LoginNodesCustomActionsSchema |-> LoginNodesCustomActionsSchema,
   LoginNodesIamSchema |-> LoginNodesIamSchema, LoginNodesImageSchema |-> LoginNodesImageSchema,
   LoginNodesNetworkingSchema |-> LoginNodesNetworkingSchema,
   LoginNodesPoolSchema |-> LoginNodesPoolSchema, LoginNodesSchema |-> LoginNodesSchema,
   LoginNodesSshSchema |-> LoginNodesSshSchema, LogsSchema |-> LogsSchema,
   MonitoringSchema |-> MonitoringSchema, PlacementGroupSchema |-> PlacementGroupSchema,
   QueueCustomActionsSchema |-> QueueCustomActionsSchema,
   QueueEphemeralVolumeSchema |-> QueueEphemeralVolumeSchema, QueueIamSchema |-> QueueIamSchema,
   QueueImageSchema |-> QueueImageSchema, QueueProxySchema |-> QueueProxySchema,
   QueueRootVolumeSchema |-> QueueRootVolumeSchema, QueueStorageSchema |-> QueueStorageSchema,
   QueueTagSchema |-> QueueTagSchema, RaidSchema |-> RaidSchema, RolesSchema |-> RolesSchema,
   RotationSchema |-> RotationSchema, S3AccessSchema |-> S3AccessSchema,
   SchedulingSchema |-> SchedulingSchema,
   SharedStorageEfsSettingsSchema |-> SharedStorageEfsSettingsSchema,
   SharedStorageSchema |-> SharedStorageSchema,
   SlurmComputeResourceNetworkingSchema |-> SlurmComputeResourceNetworkingSchema,
   SlurmComputeResourceSchema |-> SlurmComputeResourceSchema,
   SlurmQueueNetworkingSchema |-> SlurmQueueNetworkingSchema,
   SlurmQueueSchema |-> SlurmQueueSchema, SlurmSettingsSchema |-> SlurmSettingsSchema,
   TagSchema |-> TagSchema, TimeoutsSchema |-> TimeoutsSchema,
   TopLevelImdsSchema |-> TopLevelImdsSchema,
   SupportedActionSchema |-> CustomActionSchema("SUPPORTED"),
   UnsupportedActionSchema |-> CustomActionSchema("UNSUPPORTED"),
   QueueActionSchema |-> CustomActionSchema("QUEUE_UPDATE_STRATEGY")]
=============================================================================
