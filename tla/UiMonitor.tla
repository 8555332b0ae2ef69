----------------------------- MODULE UiMonitor -----------------------------
(***************************************************************************)
(* The pages that show what Prometheus measures of the virtual machine     *)
(* hosts, the router and the graphics cards.                               *)
(***************************************************************************)
EXTENDS Ui

-----------------------------------------------------------------------------
\* pages/vcenter/VCenterHostPrometheusDetail.tsx

HostStatsQ == Each(Polled(Query(<<"vcenter-host-prom-stats">>, {"vc.metrics"})))
HostVitalsQ == Each(Query(<<"vcenter-host-prom-vitals">>, {"vc.metrics"}))
DatastoreRows == {"vc.metrics"}
DatastoresQ == Each(Query(<<"vcenter-host-prom-ds-ext">>, DatastoreRows))
SensorStateQ == Each(Query(<<"vcenter-host-prom-sensor-state">>, {"vc.metrics"}))
SensorFanQ == Each(Query(<<"vcenter-host-prom-sensor-fan">>, {"vc.metrics"}))
SensorTempQ == Each(Query(<<"vcenter-host-prom-sensor-temp">>, {"vc.metrics"}))
SensorPowerQ == Each(Query(<<"vcenter-host-prom-sensor-power">>, {"vc.metrics"}))
SnapshotsQ == Each(Query(<<"vcenter-host-prom-vm-snaps">>, {"vc.metrics"}))
SnapshotTimesQ == Each(Query(<<"vcenter-host-prom-vm-snap-ts">>, {"vc.metrics"}))
DiskLatencyQ == Each(Query(<<"vcenter-host-prom-vm-disk-lat">>, {"vc.metrics"}))
\* The keys of the charts also name the window of time that is shown.
HostPercentQ == Each(Query(<<"vcenter-host-prom-pct-range">>, {"vc.metrics"}))
HostMhzQ == Each(Query(<<"vcenter-host-prom-mhz">>, {"vc.metrics"}))
HostDiskQ == Each(Query(<<"vcenter-host-prom-disk">>, {"vc.metrics"}))
HostNetQ == Each(Query(<<"vcenter-host-prom-net">>, {"vc.metrics"}))
HostMemoryQ == Each(Query(<<"vcenter-host-prom-mem-active">>, {"vc.metrics"}))
VmMemoryQ == Each(Query(<<"vcenter-host-prom-vm-mem">>, {"vc.metrics"}))
VmCpuQ == Each(Query(<<"vcenter-host-prom-vm-cpu">>, {"vc.metrics"}))
VmReadyQ == Each(Query(<<"vcenter-host-prom-vm-cpu-ready">>, {"vc.metrics"}))
VmNetQ == Each(Query(<<"vcenter-host-prom-vm-net-rx">>, {"vc.metrics"}))
VmConsumedQ == Each(Query(<<"vcenter-host-prom-vm-mem-cons">>, {"vc.metrics"}))
VmDiskQ == Each(Query(<<"vcenter-host-prom-vm-disk-rw">>, {"vc.metrics"}))
DatastoreUsageQ == Each(Query(<<"vcenter-host-prom-ds-usage">>, {"vc.metrics"}))
\* One button fetches all of them again.
RefetchAll(queries) == {Reloadable(q) : q \in queries}
HostCounters == {HostStatsQ}
HostVitals == {HostVitalsQ}
HostCharts == {HostPercentQ, HostMhzQ, HostDiskQ, HostNetQ}
HostMemoryChart == {HostMemoryQ}
Datastores == {DatastoresQ, DatastoreUsageQ}
Sensors == {SensorStateQ, SensorFanQ, SensorTempQ, SensorPowerQ}
Snapshots == {SnapshotsQ, DiskLatencyQ, SnapshotTimesQ}
VmCharts == {VmCpuQ, VmReadyQ, VmMemoryQ, VmConsumedQ, VmNetQ}
VmDiskChart == {VmDiskQ}
VCenterHostPrometheusDetail ==
    Page(RefetchAll(HostCounters \cup HostVitals \cup HostCharts \cup HostMemoryChart
                    \cup Datastores \cup Sensors \cup Snapshots \cup VmCharts \cup VmDiskChart), {})

-----------------------------------------------------------------------------
\* pages/vcenter/VCenterIkuaiRouterPage.tsx

RoutersQ == Query(<<"ikuai-prom-instances">>, {"router.metrics"})
RouterKpisQ == Each(Polled(Query(<<"ikuai-kpis">>, {"router.metrics"})))
ProtocolsQ == Each(Polled(Query(<<"ikuai-protocol-pie">>, {"router.metrics"})))
RouterClientsQ == Each(Polled(Query(<<"ikuai-clients-table">>, {"router.metrics"})))
RouterCpuQ == Each(Query(<<"ikuai-chart-cpu">>, {"router.metrics"}))
RouterStreamQ == Each(Query(<<"ikuai-chart-stream">>, {"router.metrics"}))
SendLineQ == Each(Query(<<"ikuai-chart-send-line">>, {"router.metrics"}))
IfaceDownQ == Each(Query(<<"ikuai-chart-iface-dl">>, {"router.metrics"}))
TopIpQ == Each(Query(<<"ikuai-chart-topip">>, {"router.metrics"}))
RouterMemoryQ == Each(Query(<<"ikuai-chart-mem-pct">>, {"router.metrics"}))
RefetchRouter(queries) == {Reloadable(q) : q \in queries}
RouterKpis == {RouterKpisQ}
RouterProtocols == {ProtocolsQ}
RouterClients == {RouterClientsQ}
RouterCharts == {RouterCpuQ, RouterMemoryQ, RouterStreamQ}
RouterLinks == {SendLineQ, IfaceDownQ, TopIpQ}
VCenterIkuaiRouterPage ==
    Page(RefetchRouter({RoutersQ} \cup RouterKpis \cup RouterProtocols \cup RouterClients
                       \cup RouterCharts \cup RouterLinks), {})

-----------------------------------------------------------------------------
\* pages/vcenter/VCenterEsxiPrometheusDashboard.tsx

PromHostsQ == Query(<<"vcenter-prom-hosts">>, {"vc.metrics"})
HostNamesQ == Query(<<"vcenter-hosts-names">>, {"vc.hosts"})
EsxiStatsQ == Each(Polled(Query(<<"vcenter-esxi-stats">>, {"vc.metrics"})))
EsxiMemoryQ == Each(Query(<<"vcenter-chart-vm-mem">>, {"vc.metrics"}))
EsxiDatastoreQ == Each(Query(<<"vcenter-chart-ds">>, {"vc.metrics"}))
EsxiCpuQ == Each(Query(<<"vcenter-chart-vm-cpu">>, {"vc.metrics"}))
RefetchEsxi(queries) == {Reloadable(q) : q \in queries}
EsxiCounters == {EsxiStatsQ}
EsxiCharts == {EsxiMemoryQ, EsxiDatastoreQ, EsxiCpuQ}
EsxiHostSelect == {View(PromHostsQ), View(HostNamesQ)}
VCenterEsxiPrometheusDashboard ==
    Page(EsxiHostSelect \cup RefetchEsxi(EsxiCounters \cup EsxiCharts), {})

-----------------------------------------------------------------------------
\* pages/vcenter/VCenterGpuDashboard.tsx

GpuFamilyQ == Each(Query(<<"vcenter-gpu-family">>, {"gpu.metrics"}))
GpuUseQ == Each(Query(<<"vcenter-gpu-util">>, {"gpu.metrics"}))
GpuTempQ == Each(Query(<<"vcenter-gpu-temp">>, {"gpu.metrics"}))
GpuPowerQ == Each(Query(<<"vcenter-gpu-power">>, {"gpu.metrics"}))
GpuMemoryQ == Each(Query(<<"vcenter-gpu-vram">>, {"gpu.metrics"}))
GpuNowQ == Each(Polled(Query(<<"vcenter-gpu-instant">>, {"gpu.metrics"})))
RefetchGpu(queries) == {Reloadable(q) : q \in queries}
GpuNow == {GpuNowQ}
GpuCharts == {GpuUseQ, GpuTempQ, GpuPowerQ, GpuMemoryQ}
VCenterGpuDashboard == Page(RefetchGpu({GpuFamilyQ} \cup GpuNow \cup GpuCharts), {})

-----------------------------------------------------------------------------
\* pages/vcenter/VCenterPrometheusPanel.tsx

JobMetricsQ == Each(Query(<<"vcenter-prometheus-metrics">>, {"vc.metrics"}))
JobMetrics == Reloadable(JobMetricsQ)
JobTables == View(JobMetricsQ)
VCenterPrometheusPanel == Page({JobMetrics, JobTables}, {})

-----------------------------------------------------------------------------
\* pages/vcenter/VCenterPerfMonitor.tsx

TcpQ == Each(Query(<<"vcenter-vm-tcp-established">>, {"vc.vm.guest"}))
PerfQ == Each(Query(<<"vcenter-perf">>, {"vc.metrics"}))
TcpPanel == Reloadable(TcpQ)
PerfPanels == View(PerfQ)
VCenterPerfMonitor == Page({TcpPanel, PerfPanels}, {})
Pages == {VCenterHostPrometheusDetail, VCenterIkuaiRouterPage, VCenterEsxiPrometheusDashboard,
          VCenterGpuDashboard, VCenterPrometheusPanel, VCenterPerfMonitor}

=============================================================================
